---- MODULE Spec2Model ----
(***************************************************************************)
(* A model of the stub classes, the LLM service, the FastAPI application   *)
(* and the human-in-the-loop graph of ai_social_scheduler.  Each component *)
(* runs in isolation (nothing in the repository wires them together), so   *)
(* each has its own next-state relation and specification over the same    *)
(* variables; a component's actions leave the other components unchanged.  *)
(***************************************************************************)
EXTENDS Integers, Sequences, FiniteSets, TLC

VARIABLES
    \* core/task_scheduler.py
    task_queue,      \* TaskScheduler.task_queue: list of {"task", "priority"}
    running_tasks,   \* TaskScheduler.running_tasks: dict
    add_calls,       \* number of add_task calls made so far
    add_log,         \* the entries add_task was called with, in call order
    sched_call       \* the last TaskScheduler call: its arguments, the calls
                     \* it made on the scheduler itself, and what it returned

VARIABLES
    \* core/event_listener.py
    handlers,        \* EventListener.handlers: dict event_type -> list
    reg_log,         \* the register_handler calls made so far, in call order
    ev_call          \* the last EventListener call: its arguments, the
                     \* handlers it invoked (in order) and how it ended

VARIABLES
    \* services/llm_service.py
    llm_provider,    \* LLMService.provider
    llm_client,      \* LLMService._client
    llm_call,        \* the last LLMService.generate call: its arguments, the
                     \* client calls it made, what it logged and how it ended
    llm_stream       \* the async generator of the last generate_stream call

VARIABLES
    \* core/state_manager.py
    task_states,     \* StateManager.task_states: dict task_id -> state
    session_states,  \* StateManager.session_states: dict session_id -> context
    platform_states, \* StateManager.platform_states: dict
    last_update,     \* per task id, the state passed to the most recent
                     \* update_task_state call (no entry: never called)
    sm_call          \* the last StateManager call: arguments and return value

VARIABLES
    \* core/strategy_manager.py
    strategies,      \* StrategyManager.strategies: strategy_id -> dict
    hot_topics,      \* StrategyManager.hot_topics: a list
    templates,       \* StrategyManager.templates: template_type -> dict
    strat_call       \* the last StrategyManager call: arguments, return
                     \* value, and the hot_topics it found

VARIABLES
    \* api/app.py and api/routes
    api_store,       \* the content ids the content repository holds
    api_seen,        \* the status codes of the requests answered so far
    api_calls,       \* the repository, service and workflow calls made while
                     \* handling the last request
    api_resp         \* the response to the last request

VARIABLES
    \* langgraph_base/b-*/human_in_the_loop.py
    hitl_msgs,       \* State.messages of the thread, as checkpointed
    hitl_next,       \* snapshot.next of the thread: the nodes still to run
    hitl_turns,      \* the number of LLM replies so far
    hitl_resume,     \* the value of Command(resume=...) not yet consumed by
                     \* an interrupt() call
    hitl_pc,         \* where the running graph is
    hitl_run         \* the stream of the last graph.stream() call: its input,
                     \* the steps taken in it and how it ended

VARIABLES
    \* langgraph_base/b-*/state_snapshot_demo.py
    snap_pc,         \* the statement of the demo function that runs next
    snap_cp,         \* per graph, its MemorySaver: thread_id -> checkpoint
    snap_gen,        \* the generator the last graph.stream() call returned
    snap_out,        \* what the demo functions have reported so far
    snap_calls       \* the number of demo function calls so far

VARIABLES
    \* langgraph_base/b-*/human_review_example.py
    rev_status,      \* the agent run on thread "2": none, running,
                     \* interrupted, completed or error
    rev_pc,          \* where the running agent is
    rev_calls,       \* the tool calls the LLM has made, in order
    rev_resume,      \* the value of Command(resume=...) not yet consumed
    rev_input,       \* tool_input, the wrapper's local variable
    rev_response,    \* response, the wrapper's local variable
    rev_log          \* the tool.invoke calls made on the wrapped tool

VARIABLES
    \* langgraph_base/d-*/custom_state_demo.py
    cs_state,        \* State of thread "1": messages, name, birthday
    cs_next,         \* snapshot.next of the thread
    cs_pc,           \* where the running graph is
    cs_resume,       \* the value of Command(resume=...) not yet consumed
    cs_run,          \* the run: its status and the number of LLM replies
    cs_exec          \* the tool executions so far: which tool call, which
                     \* tool, started or done

VARIABLES
    \* langgraph_base/basic_chatbot.py
    bot_status,      \* the chat loop of run_chatbot: running or ended
    bot_thread,      \* thread_id of the current config
    bot_store,       \* the InMemorySaver: thread_id -> State.messages
    bot_epoch,       \* the number of clear and reset commands so far
    bot_log,         \* every message exchanged so far, in order
    bot_seen,        \* per llm.invoke call, the messages it was given
    bot_inputs       \* the number of input() calls so far

VARIABLES
    \* langgraph_base/j-*/swarm_example.py
    sw_status,       \* the swarm: idle or running an invocation
    sw_state,        \* SwarmState of the running invocation: messages and
                     \* active_agent
    sw_saved,        \* what the compiled graph's checkpointer holds:
                     \* thread_id -> SwarmState
    sw_steps,        \* LLM replies in the running invocation
    sw_log           \* per invocation: its thread_id, the agent it started
                     \* at, the messages that agent was given, and the agent
                     \* and messages it ended with

schedVars == <<task_queue, running_tasks, add_calls, add_log, sched_call>>
evVars == <<handlers, reg_log, ev_call>>
llmVars == <<llm_provider, llm_client, llm_call, llm_stream>>
smVars == <<task_states, session_states, platform_states, last_update, sm_call>>
stratVars == <<strategies, hot_topics, templates, strat_call>>
apiVars == <<api_store, api_seen, api_calls, api_resp>>
hitlVars == <<hitl_msgs, hitl_next, hitl_turns, hitl_resume, hitl_pc, hitl_run>>
snapVars == <<snap_pc, snap_cp, snap_gen, snap_out, snap_calls>>
revVars == <<rev_status, rev_pc, rev_calls, rev_resume, rev_input, rev_response,
             rev_log>>

\* the components of the package proper and of the human-in-the-loop graph
coreVars == <<schedVars, evVars, llmVars, smVars, stratVars, apiVars,
              hitlVars>>
\* the components of the other langgraph_base examples
csVars == <<cs_state, cs_next, cs_pc, cs_resume, cs_run, cs_exec>>
botVars == <<bot_status, bot_thread, bot_store, bot_epoch, bot_log, bot_seen,
             bot_inputs>>
swVars == <<sw_status, sw_state, sw_saved, sw_steps, sw_log>>
exampleVars == <<snapVars, revVars, csVars, botVars, swVars>>

\* what the actions of one component leave alone
notSched == <<evVars, llmVars, smVars, stratVars, apiVars, hitlVars, exampleVars>>
notEv == <<schedVars, llmVars, smVars, stratVars, apiVars, hitlVars, exampleVars>>
notLlm == <<schedVars, evVars, smVars, stratVars, apiVars, hitlVars, exampleVars>>
notSm == <<schedVars, evVars, llmVars, stratVars, apiVars, hitlVars, exampleVars>>
notApi == <<schedVars, evVars, llmVars, smVars, stratVars, hitlVars,
           exampleVars>>
notHitl == <<schedVars, evVars, llmVars, smVars, stratVars, apiVars,
            exampleVars>>
notStrat == <<schedVars, evVars, llmVars, smVars, apiVars, hitlVars,
             exampleVars>>
notSnap == <<coreVars, revVars, csVars, botVars, swVars>>
notRev == <<coreVars, snapVars, csVars, botVars, swVars>>
notCs == <<coreVars, snapVars, revVars, botVars, swVars>>
notBot == <<coreVars, snapVars, revVars, csVars, swVars>>
notSw == <<coreVars, snapVars, revVars, csVars, botVars>>

vars == <<task_queue, running_tasks, add_calls, add_log, sched_call,
          handlers, reg_log, ev_call,
          llm_provider, llm_client, llm_call, llm_stream,
          task_states, session_states, platform_states, last_update, sm_call,
          strategies, hot_topics, templates, strat_call,
          api_store, api_seen, api_calls, api_resp,
          hitl_msgs, hitl_next, hitl_turns, hitl_resume, hitl_pc, hitl_run,
          snap_pc, snap_cp, snap_gen, snap_out, snap_calls,
          rev_status, rev_pc, rev_calls, rev_resume, rev_input, rev_response,
          rev_log,
          cs_state, cs_next, cs_pc, cs_resume, cs_run, cs_exec,
          bot_status, bot_thread, bot_store, bot_epoch, bot_log, bot_seen,
          bot_inputs,
          sw_status, sw_state, sw_saved, sw_steps, sw_log>>

-----------------------------------------------------------------------------
(* Python values *)

\* the empty dict {}
EmptyDict == [k \in {} |-> 0]

\* None, as a call's return value
None == [kind |-> "None"]

\* a returned value v
Value(v) == [kind |-> "value", value |-> v]

\* a call that ended by raising exception e
Raised(e) == [kind |-> "raised", exc |-> e]

\* d[k] = v on a dict
DictSet(d, k, v) == [x \in DOMAIN d \cup {k} |-> IF x = k THEN v ELSE d[x]]

\* d.get(k, default)
DictGet(d, k, default) == IF k \in DOMAIN d THEN d[k] ELSE default

-----------------------------------------------------------------------------
(* core/task_scheduler.py *)

\* bound: add_task calls in one run
MaxQueue == 4

\* the task dicts the callers pass
Tasks == {"t1", "t2"}

\* the priorities the callers pass: negative, zero (the default), positive
Priorities == {-1, 0, 1}

\* the max_retries the callers pass (3 is the default)
RetryLimits == {0, 3}

\* one insertion of a sort that is not stable: e goes in front of the
\* entries whose key equals its own
RECURSIVE InsertBeforeEqual(_, _)
InsertBeforeEqual(e, s) ==
    IF s = <<>> THEN <<e>>
    ELSE IF Head(s).priority > e.priority
         THEN <<Head(s)>> \o InsertBeforeEqual(e, Tail(s))
         ELSE <<e>> \o s

\* list.sort(key=lambda x: x["priority"], reverse=True), one insertion of
\* the stable sort: e goes behind every entry whose key is >= its own
RECURSIVE InsertByPriority(_, _)
InsertByPriority(e, s) ==
    IF s = <<>> THEN <<e>>
    ELSE IF Head(s).priority >= e.priority
         THEN <<Head(s)>> \o InsertByPriority(e, Tail(s))
         ELSE <<e>> \o s

\* a sort that puts the lowest priority first (reverse=True forgotten)
RECURSIVE SortAscending(_)
SortAscending(s) ==
    IF s = <<>> THEN <<>>
    ELSE LET rest == SortAscending(SubSeq(s, 1, Len(s) - 1))
             e == s[Len(s)]
             lower == SelectSeq(rest, LAMBDA x : x.priority <= e.priority)
             higher == SelectSeq(rest, LAMBDA x : x.priority > e.priority)
         IN  lower \o <<e>> \o higher

\* task_queue.sort(key=lambda x: x["priority"], reverse=True): stable, the
\* highest priority first
RECURSIVE SortByPriority(_)
SortByPriority(s) ==
    IF s = <<>> THEN <<>>
    ELSE InsertByPriority(s[Len(s)], SortByPriority(SubSeq(s, 1, Len(s) - 1)))

\* TaskScheduler.__init__
SchedInit ==
    /\ task_queue = <<>>
    /\ running_tasks = EmptyDict
    /\ add_calls = 0
    /\ add_log = <<>>
    /\ sched_call = [op |-> "init", task |-> "none", arg |-> 0,
                     calls |-> <<>>, ret |-> None]

\* an add_task that does not queue a task that is queued already
add_task_unique(task, priority) ==
    /\ add_calls < MaxQueue
    /\ task_queue' = IF \E i \in 1..Len(task_queue) : task_queue[i].task = task
                     THEN task_queue
                     ELSE SortByPriority(
                            Append(task_queue, [task |-> task, priority |-> priority]))
    /\ add_calls' = add_calls + 1
    /\ add_log' = Append(add_log, [task |-> task, priority |-> priority])
    /\ sched_call' = [op |-> "add_task", task |-> task, arg |-> priority,
                      calls |-> <<>>, ret |-> None]
    /\ UNCHANGED <<running_tasks, notSched>>

\* TaskScheduler.add_task(task, priority)
add_task(task, priority) ==
    /\ add_calls < MaxQueue
    /\ task_queue' = SortByPriority(
            Append(task_queue, [task |-> task, priority |-> priority]))
    /\ add_calls' = add_calls + 1
    /\ add_log' = Append(add_log, [task |-> task, priority |-> priority])
    /\ sched_call' = [op |-> "add_task", task |-> task, arg |-> priority,
                      calls |-> <<>>, ret |-> None]
    /\ UNCHANGED <<running_tasks, notSched>>

\* an execute_task that takes the task off the queue and marks it as running
execute_task_dequeue(task) ==
    /\ sched_call' = [op |-> "execute_task", task |-> task, arg |-> 0,
                      calls |-> <<>>,
                      ret |-> Value([status |-> "success", result |-> EmptyDict])]
    /\ task_queue' = SelectSeq(task_queue, LAMBDA e : e.task # task)
    /\ running_tasks' = [k \in DOMAIN running_tasks \cup {task} |-> "running"]
    /\ UNCHANGED <<add_calls, add_log, notSched>>

\* TaskScheduler.execute_task(task)
execute_task(task) ==
    /\ sched_call' = [op |-> "execute_task", task |-> task, arg |-> 0,
                      calls |-> <<>>,
                      ret |-> Value([status |-> "success", result |-> EmptyDict])]
    /\ UNCHANGED <<task_queue, running_tasks, add_calls, add_log, notSched>>

\* a retry_task that runs the task again and puts it back on the queue
retry_task_requeue(task, max_retries) ==
    /\ sched_call' = [op |-> "retry_task", task |-> task, arg |-> max_retries,
                      calls |-> IF max_retries > 0 THEN <<"execute_task">> ELSE <<>>,
                      ret |-> None]
    /\ task_queue' = IF max_retries > 0 /\ Len(task_queue) < MaxQueue
                     THEN Append(task_queue, [task |-> task, priority |-> 0])
                     ELSE task_queue
    /\ UNCHANGED <<running_tasks, add_calls, add_log, notSched>>

\* TaskScheduler.retry_task(task, max_retries)
retry_task(task, max_retries) ==
    /\ sched_call' = [op |-> "retry_task", task |-> task, arg |-> max_retries,
                      calls |-> <<>>, ret |-> None]
    /\ UNCHANGED <<task_queue, running_tasks, add_calls, add_log, notSched>>

AddTask == \E t \in Tasks, p \in Priorities : add_task(t, p)
ExecuteTask == \E t \in Tasks : execute_task(t)
RetryTask == \E t \in Tasks, m \in RetryLimits : retry_task(t, m)

SchedNext == AddTask \/ ExecuteTask \/ RetryTask

-----------------------------------------------------------------------------
(* core/event_listener.py *)

\* bound: register_handler calls in one run
MaxHandlers == 3

\* the event types the callers use
EventTypes == {"comment", "publish"}

\* the event_data dicts the callers emit
EventData == {"ok", "bad"}

\* the callables the callers register: "log" and "notify" return, "fail"
\* raises on every event, "strict" raises on the event data it rejects
Handlers == {"log", "notify", "fail", "strict"}

\* handler(event_data) raises
HandlerRaises(h, data) == h = "fail" \/ (h = "strict" /\ data = "bad")

\* the exception handler h raises
HandlerError(h) == [type |-> "HandlerError", by |-> h]

\* a dispatch loop that shields the handlers from each other: a raising
\* handler is skipped over and emit returns normally
RECURSIVE DispatchIsolated(_, _)
DispatchIsolated(hs, data) ==
    IF hs = <<>> THEN [invoked |-> <<>>, outcome |-> None]
    ELSE LET rest == DispatchIsolated(Tail(hs), data)
         IN  [invoked |-> <<Head(hs)>> \o rest.invoked, outcome |-> None]

\* for handler in self.handlers[event_type]: handler(event_data)
\* the handlers invoked, in order, and how the loop ended: the first raise
\* leaves the loop and the function
RECURSIVE Dispatch(_, _)
Dispatch(hs, data) ==
    IF hs = <<>> THEN [invoked |-> <<>>, outcome |-> None]
    ELSE IF HandlerRaises(Head(hs), data)
         THEN [invoked |-> <<Head(hs)>>, outcome |-> Raised(HandlerError(Head(hs)))]
         ELSE LET rest == Dispatch(Tail(hs), data)
              IN  [invoked |-> <<Head(hs)>> \o rest.invoked,
                   outcome |-> rest.outcome]

\* EventListener.__init__
EvInit ==
    /\ handlers = EmptyDict
    /\ reg_log = <<>>
    /\ ev_call = [op |-> "init", event_type |-> "none", arg |-> "none",
                  invoked |-> <<>>, outcome |-> None]

\* a register_handler that puts the new handler in front (insert(0, handler))
register_handler_prepend(event_type, handler) ==
    /\ Len(reg_log) < MaxHandlers
    /\ handlers' = DictSet(handlers, event_type,
                           <<handler>> \o DictGet(handlers, event_type, <<>>))
    /\ reg_log' = Append(reg_log, <<event_type, handler>>)
    /\ ev_call' = [op |-> "register_handler", event_type |-> event_type,
                   arg |-> handler, invoked |-> <<>>, outcome |-> None]
    /\ UNCHANGED notEv

\* EventListener.register_handler(event_type, handler)
register_handler(event_type, handler) ==
    /\ Len(reg_log) < MaxHandlers
    /\ handlers' = DictSet(handlers, event_type,
                           Append(DictGet(handlers, event_type, <<>>), handler))
    /\ reg_log' = Append(reg_log, <<event_type, handler>>)
    /\ ev_call' = [op |-> "register_handler", event_type |-> event_type,
                   arg |-> handler, invoked |-> <<>>, outcome |-> None]
    /\ UNCHANGED notEv

\* EventListener.emit(event_type, event_data)
emit(event_type, event_data) ==
    /\ LET run == IF event_type \in DOMAIN handlers
                  THEN Dispatch(handlers[event_type], event_data)
                  ELSE [invoked |-> <<>>, outcome |-> None]
       IN  ev_call' = [op |-> "emit", event_type |-> event_type,
                       arg |-> event_data, invoked |-> run.invoked,
                       outcome |-> run.outcome]
    /\ UNCHANGED <<handlers, reg_log, notEv>>

RegisterHandler == \E et \in EventTypes, h \in Handlers : register_handler(et, h)
Emit == \E et \in EventTypes, d \in EventData : emit(et, d)

EvNext == RegisterHandler \/ Emit

-----------------------------------------------------------------------------
(* services/llm_service.py *)

\* bound: chunks the client produces in one astream call
MaxChunks == 3

\* settings.default_llm_provider
Providers == {"openai", "anthropic", "other"}

\* the message lists the callers pass
MessageLists == {"msgs1", "msgs2"}

\* the keyword arguments the callers pass
KwargDicts == {EmptyDict, [temperature |-> 0]}

\* the content of a response or of a chunk
Contents == {"", "text"}

\* the message prefix of the LLMError raised by generate and the one of the
\* LLMError raised by generate_stream
GenerateFailed == "LLM call failed"
StreamFailed == "LLM stream call failed"

\* the exceptions the client raises
ClientErrors == {[type |-> "TimeoutError", message |-> "timed out"],
                 [type |-> "RateLimitError", message |-> "rate limit"]}

\* str(e)
Str(e) == e.message

\* LLMError(f"<prefix>: {str(e)}") from e
LLMError(prefix, e) ==
    [type |-> "LLMError", message |-> <<prefix, Str(e)>>, cause |-> e]

\* LLMError(f"<unsupported provider>: {self.provider}")
UnsupportedProvider(provider) ==
    [type |-> "LLMError", message |-> <<"unsupported provider", provider>>]

\* LLMService._get_client: the client, created on first use, or the error
GetClient(client, provider) ==
    IF client # "none" THEN Value(client)
    ELSE IF provider = "openai" THEN Value("ChatOpenAI")
    ELSE IF provider = "anthropic" THEN Value("ChatAnthropic")
    ELSE Raised(UnsupportedProvider(provider))

\* self._client after _get_client
ClientAfter(client, provider) ==
    LET got == GetClient(client, provider)
    IN  IF got.kind = "value" THEN got.value ELSE client

\* a service without the except clause: the exception leaves as it came
Propagate(what, e) == [logged |-> <<>>, outcome |-> Raised(e)]

\* except Exception as e: logger.error(..., error=str(e));
\* raise LLMError(f"...: {str(e)}") from e
Rethrow(what, e) ==
    [logged |-> <<[event |-> what, error |-> Str(e)]>>,
     outcome |-> Raised(LLMError(what, e))]

\* what client.ainvoke / one step of client.astream can do
ClientResults ==
    {[kind |-> "ok", response |-> [content |-> c]] : c \in Contents}
    \cup {[kind |-> "raise", exc |-> e] : e \in ClientErrors}

\* a generate that asks the client again when the content is empty and
\* returns the response itself
GenerateBodyRetrying(client, messages, kwargs, r) ==
    IF client.kind = "raised"
    THEN [calls |-> <<>>] @@ Rethrow(GenerateFailed, client.exc)
    ELSE LET call == [method |-> "ainvoke", messages |-> messages,
                      kwargs |-> kwargs, result |-> r]
         IN  IF r.kind = "raise"
             THEN [calls |-> <<call>>] @@ Rethrow(GenerateFailed, r.exc)
             ELSE IF r.response.content = ""
                  THEN [calls |-> <<call, call>>, logged |-> <<>>,
                        outcome |-> Value(r.response)]
                  ELSE [calls |-> <<call>>, logged |-> <<>>,
                        outcome |-> Value(r.response.content)]

\* the body of generate, given the result of _get_client and what the
\* client's ainvoke does
GenerateBody(client, messages, kwargs, r) ==
    IF client.kind = "raised"
    THEN [calls |-> <<>>] @@ Rethrow(GenerateFailed, client.exc)
    ELSE LET call == [method |-> "ainvoke", messages |-> messages,
                      kwargs |-> kwargs, result |-> r]
         IN  IF r.kind = "raise"
             THEN [calls |-> <<call>>] @@ Rethrow(GenerateFailed, r.exc)
             ELSE [calls |-> <<call>>, logged |-> <<>>,
                   outcome |-> Value(r.response.content)]

NoStream ==
    [state |-> "none", messages |-> "none", kwargs |-> EmptyDict,
     calls |-> <<>>, produced |-> <<>>, yielded |-> <<>>,
     raised |-> None, logged |-> <<>>, outcome |-> None]

\* LLMService.__init__
LlmInit ==
    /\ llm_provider \in Providers
    /\ llm_client = "none"
    /\ llm_call = [op |-> "init", messages |-> "none", kwargs |-> EmptyDict,
                   calls |-> <<>>, logged |-> <<>>, outcome |-> None]
    /\ llm_stream = NoStream

\* await LLMService.generate(messages, **kwargs), the client doing r
generate(messages, kwargs, r) ==
    /\ LET run == GenerateBody(GetClient(llm_client, llm_provider),
                               messages, kwargs, r)
       IN  llm_call' = [op |-> "generate", messages |-> messages,
                        kwargs |-> kwargs, calls |-> run.calls,
                        logged |-> run.logged, outcome |-> run.outcome]
    /\ llm_client' = ClientAfter(llm_client, llm_provider)
    /\ UNCHANGED <<llm_provider, llm_stream, notLlm>>

\* LLMService.generate_stream(messages, **kwargs): the call only creates the
\* async generator, its body has not started
generate_stream(messages, kwargs) ==
    /\ llm_stream' = [NoStream EXCEPT !.state = "created",
                                      !.messages = messages,
                                      !.kwargs = kwargs]
    /\ UNCHANGED <<llm_provider, llm_client, llm_call, notLlm>>

\* the first __anext__ on the generator: _get_client, then client.astream
stream_start ==
    /\ llm_stream.state = "created"
    /\ LET got == GetClient(llm_client, llm_provider)
       IN  IF got.kind = "raised"
           THEN LET x == Rethrow(StreamFailed, got.exc)
                IN  llm_stream' = [llm_stream EXCEPT !.state = "failed",
                                                     !.logged = x.logged,
                                                     !.outcome = x.outcome]
           ELSE llm_stream' =
                    [llm_stream EXCEPT !.state = "running",
                                       !.calls = <<[method |-> "astream",
                                                    messages |-> llm_stream.messages,
                                                    kwargs |-> llm_stream.kwargs]>>]
    /\ llm_client' = ClientAfter(llm_client, llm_provider)
    /\ UNCHANGED <<llm_provider, llm_call, notLlm>>

\* async for chunk in client.astream(...): yield chunk.content
\* the client produces one more chunk, which the generator yields
stream_chunk(chunk) ==
    /\ llm_stream.state = "running"
    /\ Len(llm_stream.produced) < MaxChunks
    /\ llm_stream' = [llm_stream EXCEPT
                          !.produced = Append(@, chunk),
                          !.yielded = Append(@, chunk.content)]
    /\ UNCHANGED <<llm_provider, llm_client, llm_call, notLlm>>

\* the client's stream ends: the generator returns
stream_end ==
    /\ llm_stream.state = "running"
    /\ llm_stream' = [llm_stream EXCEPT !.state = "done"]
    /\ UNCHANGED <<llm_provider, llm_client, llm_call, notLlm>>

\* the client raises e while streaming
stream_error(e) ==
    /\ llm_stream.state = "running"
    /\ LET x == Rethrow(StreamFailed, e)
       IN  llm_stream' = [llm_stream EXCEPT
                             !.state = "failed",
                             !.raised = Raised(e),
                             !.logged = x.logged,
                             !.outcome = x.outcome]
    /\ UNCHANGED <<llm_provider, llm_client, llm_call, notLlm>>

Generate ==
    \E m \in MessageLists, k \in KwargDicts, r \in ClientResults : generate(m, k, r)
GenerateStream == \E m \in MessageLists, k \in KwargDicts : generate_stream(m, k)
StreamChunk == \E c \in Contents : stream_chunk([content |-> c])
StreamError == \E e \in ClientErrors : stream_error(e)

LlmNext ==
    Generate \/ GenerateStream \/ stream_start \/ StreamChunk \/ stream_end
    \/ StreamError

-----------------------------------------------------------------------------
(* core/state_manager.py *)

\* the task ids and session ids the callers use
TaskIds == {"task1", "task2"}
SessionIds == {"sess1", "sess2"}

\* the state dicts the callers pass ({} among them)
StateDicts == {EmptyDict, [status |-> "pending"], [status |-> "done"]}

\* the context dicts the callers pass
ContextDicts == {EmptyDict, [user |-> "u1"]}

\* StateManager.__init__
SmInit ==
    /\ task_states = EmptyDict
    /\ session_states = EmptyDict
    /\ platform_states = EmptyDict
    /\ last_update = EmptyDict
    /\ sm_call = [op |-> "init", id |-> "none", arg |-> EmptyDict, ret |-> None]

\* an update_task_state that keeps the state a task already has
\* (self.task_states.setdefault(task_id, state))
update_task_state_setdefault(task_id, state) ==
    /\ task_states' = IF task_id \in DOMAIN task_states
                      THEN task_states
                      ELSE DictSet(task_states, task_id, state)
    /\ last_update' = DictSet(last_update, task_id, state)
    /\ sm_call' = [op |-> "update_task_state", id |-> task_id, arg |-> state,
                   ret |-> None]
    /\ UNCHANGED <<session_states, platform_states, notSm>>

\* StateManager.update_task_state(task_id, state)
update_task_state(task_id, state) ==
    /\ task_states' = DictSet(task_states, task_id, state)
    /\ last_update' = DictSet(last_update, task_id, state)
    /\ sm_call' = [op |-> "update_task_state", id |-> task_id, arg |-> state,
                   ret |-> None]
    /\ UNCHANGED <<session_states, platform_states, notSm>>

\* a get_task_state that stores the default it returns for an unknown id
\* (self.task_states.setdefault(task_id, {}))
get_task_state_setdefault(task_id) ==
    /\ task_states' = IF task_id \in DOMAIN task_states
                      THEN task_states
                      ELSE DictSet(task_states, task_id, EmptyDict)
    /\ sm_call' = [op |-> "get_task_state", id |-> task_id, arg |-> EmptyDict,
                   ret |-> Value(DictGet(task_states, task_id, EmptyDict))]
    /\ UNCHANGED <<session_states, platform_states, last_update, notSm>>

\* StateManager.get_task_state(task_id)
get_task_state(task_id) ==
    /\ sm_call' = [op |-> "get_task_state", id |-> task_id, arg |-> EmptyDict,
                   ret |-> Value(DictGet(task_states, task_id, EmptyDict))]
    /\ UNCHANGED <<task_states, session_states, platform_states, last_update,
                   notSm>>

\* StateManager.save_session(session_id, context)
save_session(session_id, context) ==
    /\ session_states' = DictSet(session_states, session_id, context)
    /\ sm_call' = [op |-> "save_session", id |-> session_id, arg |-> context,
                   ret |-> None]
    /\ UNCHANGED <<task_states, platform_states, last_update,
                   notSm>>

UpdateTaskState == \E id \in TaskIds, st \in StateDicts : update_task_state(id, st)
GetTaskState == \E id \in TaskIds : get_task_state(id)
SaveSession == \E id \in SessionIds, c \in ContextDicts : save_session(id, c)

SmNext == UpdateTaskState \/ GetTaskState \/ SaveSession

-----------------------------------------------------------------------------
(* core/strategy_manager.py *)

\* the longest topics list a caller passes
MaxTopics == 2

\* the strategy ids and template types the callers ask for
StrategyIds == {"growth", "launch"}
TemplateTypes == {"post", "reply"}

\* the topics lists the callers pass ([] and lists with a repeated topic
\* among them)
Topics == {"ai", "travel", "food"}
TopicLists == UNION {[1..n -> Topics] : n \in 0..MaxTopics}

\* StrategyManager.__init__
StratInit ==
    /\ strategies = EmptyDict
    /\ hot_topics = <<>>
    /\ templates = EmptyDict
    /\ strat_call = [op |-> "init", id |-> "none", topics |-> <<>>,
                     before |-> <<>>, ret |-> None]

\* StrategyManager.load_strategy(strategy_id)
load_strategy(strategy_id) ==
    /\ strat_call' = [op |-> "load_strategy", id |-> strategy_id,
                      topics |-> <<>>, before |-> hot_topics,
                      ret |-> Value(DictGet(strategies, strategy_id, EmptyDict))]
    /\ UNCHANGED <<strategies, hot_topics, templates, notStrat>>

\* an update_hot_topics that adds the topics it does not hold yet to the
\* list it has (self.hot_topics += [t for t in topics if t not in
\* self.hot_topics])
update_hot_topics_merging(topics) ==
    /\ hot_topics' = hot_topics \o
           SelectSeq(topics,
               LAMBDA t : \A i \in 1..Len(hot_topics) : hot_topics[i] # t)
    /\ strat_call' = [op |-> "update_hot_topics", id |-> "none",
                      topics |-> topics, before |-> hot_topics,
                      ret |-> None]
    /\ UNCHANGED <<strategies, templates, notStrat>>

\* StrategyManager.update_hot_topics(topics)
update_hot_topics(topics) ==
    /\ hot_topics' = topics
    /\ strat_call' = [op |-> "update_hot_topics", id |-> "none",
                      topics |-> topics, before |-> hot_topics,
                      ret |-> None]
    /\ UNCHANGED <<strategies, templates, notStrat>>

\* StrategyManager.get_template(template_type)
get_template(template_type) ==
    /\ strat_call' = [op |-> "get_template", id |-> template_type,
                      topics |-> <<>>, before |-> hot_topics,
                      ret |-> Value(DictGet(templates, template_type, EmptyDict))]
    /\ UNCHANGED <<strategies, hot_topics, templates, notStrat>>

LoadStrategy == \E id \in StrategyIds : load_strategy(id)
UpdateHotTopics == \E topics \in TopicLists : update_hot_topics(topics)
GetTemplate == \E t \in TemplateTypes : get_template(t)

StratNext == LoadStrategy \/ UpdateHotTopics \/ GetTemplate

-----------------------------------------------------------------------------
(* api/app.py, api/routes/*.py *)

\* the content ids the clients use
ContentIds == {"c1", "c2", "c3"}

\* settings.app_version
AppVersion == "app_version"

\* how a call on a repository or on the workflow ends: it returns, or it
\* raises (the repositories and the workflow are not implemented)
CallOutcomes == {"returns", "raises"}

\* the response FastAPI sends for a handler that returned body
Ok(route, body) == [route |-> route, status |-> 200, body |-> body]

\* the response FastAPI sends when the handler raised
ServerError(route) ==
    [route |-> route, status |-> 500, body |-> "Internal Server Error"]

\* the response FastAPI sends when the request does not validate
Unprocessable(route) ==
    [route |-> route, status |-> 422, body |-> "validation error"]

\* one call on a collaborator
Call(target, method) == [target |-> target, method |-> method]

\* the application after import: nothing requested yet
ApiInit ==
    /\ api_store = {}
    /\ api_seen = {}
    /\ api_calls = <<>>
    /\ api_resp = [route |-> "none", status |-> 0, body |-> "none"]

\* the request was answered with resp after the handler made calls
Answer(resp, calls) ==
    /\ api_resp' = resp
    /\ api_calls' = calls
    /\ api_seen' = api_seen \cup {resp.status}
    /\ UNCHANGED notApi

\* a handler that awaits one collaborator call and returns its result
Delegate(route, call, outcome, result) ==
    Answer(IF outcome = "returns" THEN Ok(route, result) ELSE ServerError(route),
           <<call>>)

\* GET /: root()
root ==
    /\ Answer(Ok("GET /", [message |-> "Agent API", version |-> AppVersion]), <<>>)
    /\ UNCHANGED api_store

\* a health check that asks the content repository and reports a failed
\* request
health_probing ==
    /\ Answer(IF 500 \in api_seen
              THEN [route |-> "GET /health", status |-> 503,
                    body |-> [status |-> "unhealthy"]]
              ELSE Ok("GET /health", [status |-> "healthy"]),
              <<Call("ContentRepository", "list")>>)
    /\ UNCHANGED api_store

\* GET /health: health()
health ==
    /\ Answer(Ok("GET /health", [status |-> "healthy"]), <<>>)
    /\ UNCHANGED api_store

\* POST /api/v1/content/: create_content(content, repo)
create_content(valid, content_id, outcome) ==
    /\ IF ~valid
       THEN Answer(Unprocessable("POST /api/v1/content/"), <<>>)
       ELSE Delegate("POST /api/v1/content/", Call("ContentRepository", "create"),
                     outcome, content_id)
    /\ api_store' = IF valid /\ outcome = "returns"
                    THEN api_store \cup {content_id}
                    ELSE api_store

\* GET /api/v1/content/{content_id}: get_content(content_id, repo)
\* an id the repository does not hold gives no Content to return: 500
get_content(content_id, outcome) ==
    /\ Delegate("GET /api/v1/content/{content_id}",
                Call("ContentRepository", "get_by_id"),
                IF content_id \in api_store THEN outcome ELSE "raises",
                content_id)
    /\ UNCHANGED api_store

\* GET /api/v1/content/: list_contents(limit, offset, repo)
list_contents(valid, outcome) ==
    /\ IF ~valid
       THEN Answer(Unprocessable("GET /api/v1/content/"), <<>>)
       ELSE Delegate("GET /api/v1/content/", Call("ContentRepository", "list"),
                     outcome, api_store)
    /\ UNCHANGED api_store

\* GET /api/v1/interaction/: list_interactions(limit, offset, repo)
list_interactions(valid, outcome) ==
    /\ IF ~valid
       THEN Answer(Unprocessable("GET /api/v1/interaction/"), <<>>)
       ELSE Delegate("GET /api/v1/interaction/",
                     Call("InteractionRepository", "list"), outcome, {})
    /\ UNCHANGED api_store

\* GET /api/v1/interaction/{interaction_id}: get_interaction(id, repo)
get_interaction(outcome) ==
    /\ Delegate("GET /api/v1/interaction/{interaction_id}",
                Call("InteractionRepository", "get_by_id"), outcome, "interaction")
    /\ UNCHANGED api_store

\* GET /api/v1/analytics/metrics: list_metrics(limit, offset, repo)
list_metrics(valid, outcome) ==
    /\ IF ~valid
       THEN Answer(Unprocessable("GET /api/v1/analytics/metrics"), <<>>)
       ELSE Delegate("GET /api/v1/analytics/metrics",
                     Call("AnalyticsRepository", "list"), outcome, {})
    /\ UNCHANGED api_store

\* GET /api/v1/analytics/report: get_report(start_date, end_date, repo)
get_report(valid, outcome) ==
    /\ IF ~valid
       THEN Answer(Unprocessable("GET /api/v1/analytics/report"), <<>>)
       ELSE Delegate("GET /api/v1/analytics/report",
                     Call("AnalyticsRepository", "get_report"), outcome, "report")
    /\ UNCHANGED api_store

\* POST /api/v1/workflow/run: run_workflow_endpoint(initial_state)
run_workflow_endpoint(valid, outcome) ==
    /\ IF ~valid
       THEN Answer(Unprocessable("POST /api/v1/workflow/run"), <<>>)
       ELSE Delegate("POST /api/v1/workflow/run", Call("workflow", "run_workflow"),
                     outcome, "result")
    /\ UNCHANGED api_store

CreateContent ==
    \E v \in BOOLEAN, c \in ContentIds, o \in CallOutcomes : create_content(v, c, o)
GetContent == \E c \in ContentIds, o \in CallOutcomes : get_content(c, o)
ListContents == \E v \in BOOLEAN, o \in CallOutcomes : list_contents(v, o)
ListInteractions == \E v \in BOOLEAN, o \in CallOutcomes : list_interactions(v, o)
GetInteraction == \E o \in CallOutcomes : get_interaction(o)
ListMetrics == \E v \in BOOLEAN, o \in CallOutcomes : list_metrics(v, o)
GetReport == \E v \in BOOLEAN, o \in CallOutcomes : get_report(v, o)
RunWorkflow == \E v \in BOOLEAN, o \in CallOutcomes : run_workflow_endpoint(v, o)

ApiNext ==
    root \/ health \/ CreateContent \/ GetContent \/ ListContents
    \/ ListInteractions \/ GetInteraction \/ ListMetrics \/ GetReport
    \/ RunWorkflow

-----------------------------------------------------------------------------
(* langgraph_base/b-*/human_in_the_loop.py: the graph                        *)
(*   START -> chatbot -> (tools_condition) -> tools -> chatbot ... -> END    *)
(* compiled with a MemorySaver and driven as run_example drives it: stream   *)
(* the input, iterate the stream to its end, read the snapshot, and while    *)
(* snapshot.next is not empty stream Command(resume={"data": human_input}).  *)

\* bound: LLM replies in one thread
MaxTurns == 3

\* what the human types at the prompt
HumanInputs == {"advice", "skip"}

\* human_input after 'if human_input.lower() == "skip"'
ResumeData(human_input) ==
    IF human_input = "skip" THEN "cannot assist" ELSE human_input

\* what llm_with_tools.invoke returns: a message with text and tool calls
\* (human_assistance is the only tool bound)
LlmReplies ==
    {[type |-> "ai", content |-> c, tool_calls |-> n] :
        c \in {"", "text"}, n \in 0..2}

HumanMessage(content) == [type |-> "human", content |-> content, tool_calls |-> 0]
ToolMessage(content) == [type |-> "tool", content |-> content, tool_calls |-> 0]

\* tools_condition with the mapping {"tools": "tools", END: END}: the nodes
\* to run after chatbot added message
AfterChatbot(message) == IF message.tool_calls > 0 THEN <<"tools">> ELSE <<>>

\* a graph whose tools node leads to END
AfterToolsEnd == <<>>

\* add_edge("tools", "chatbot"): the nodes to run after tools
AfterTools == <<"chatbot">>

\* add_edge(START, "chatbot"): the nodes to run after the input is applied
AfterStart == <<"chatbot">>

\* bound: times the for loop is run again over a stream that has ended
MaxReiterate == 2

\* a stream: events is what its iteration has delivered so far, reiterated
\* counts the for loops run over it after it ended
NoRun ==
    [status |-> "none", input |-> [kind |-> "none"], base |-> 0,
     trace |-> <<>>, interrupt_ret |-> None, end |-> "none",
     events |-> <<>>, reiterated |-> 0]

\* stream_mode="values": the generator yields the state (n messages) as its
\* next event, and the for loop's body receives it
Yield(run, n) ==
    [run EXCEPT !.events = Append(@, [id |-> Len(@) + 1, messages |-> n])]

\* graph = create_human_in_the_loop_graph(): a new thread, nothing streamed
HitlInit ==
    /\ hitl_msgs = <<>>
    /\ hitl_next = <<>>
    /\ hitl_turns = 0
    /\ hitl_resume = None
    /\ hitl_pc = "none"
    /\ hitl_run = NoRun

\* the stream ends (the for loop over events exits) in the way given
EndRun(run, how) == [run EXCEPT !.status = "ended", !.end = how]

\* the run goes on with the nodes in next, or completes when there is none
\* (the state the node has written is yielded first)
Continue(run, next) ==
    /\ hitl_next' = next
    /\ LET yielded == Yield(run, Len(hitl_msgs'))
       IN  IF next = <<>>
           THEN hitl_pc' = "none" /\ hitl_run' = EndRun(yielded, "completed")
           ELSE hitl_pc' = next[1] /\ hitl_run' = yielded

\* events = graph.stream({"messages": [user_message]}, config, ...): the
\* generator is created, nothing runs yet
stream_input ==
    /\ hitl_run.status = "none"
    /\ hitl_run' = [NoRun EXCEPT !.status = "created",
                                 !.input = [kind |-> "input"],
                                 !.base = Len(hitl_msgs)]
    /\ UNCHANGED <<hitl_msgs, hitl_next, hitl_turns, hitl_resume, hitl_pc, notHitl>>

\* snapshot = graph.get_state(config); if snapshot.next: ...
\* events = graph.stream(Command(resume={"data": human_input}), config, ...)
stream_resume(human_input) ==
    /\ hitl_run.status = "ended"
    /\ hitl_run.end # "error"
    /\ hitl_next # <<>>
    /\ hitl_run' = [NoRun EXCEPT !.status = "created",
                                 !.input = [kind |-> "resume",
                                            value |-> [data |-> ResumeData(human_input)]],
                                 !.base = Len(hitl_msgs)]
    /\ UNCHANGED <<hitl_msgs, hitl_next, hitl_turns, hitl_resume, hitl_pc, notHitl>>

\* for event in events: the first step of the iteration starts the graph.
\* An input is written to the state and START's edge is followed; a
\* Command(resume=v) makes v the resume value and runs the thread's pending
\* nodes again
stream_begin ==
    /\ hitl_run.status = "created"
    /\ IF hitl_run.input.kind = "input"
       THEN /\ hitl_msgs' = Append(hitl_msgs, HumanMessage("user input"))
            /\ hitl_next' = AfterStart
            /\ hitl_pc' = AfterStart[1]
            /\ hitl_run' = Yield([hitl_run EXCEPT !.status = "running"],
                                Len(hitl_msgs'))
            /\ UNCHANGED hitl_resume
       ELSE /\ hitl_resume' = Value(hitl_run.input.value)
            /\ hitl_pc' = hitl_next[1]
            /\ hitl_run' = [hitl_run EXCEPT !.status = "running"]
            /\ UNCHANGED <<hitl_msgs, hitl_next>>
    /\ UNCHANGED <<hitl_turns, notHitl>>

\* the chatbot node: message = llm_with_tools.invoke(state["messages"]);
\* assert len(message.tool_calls) <= 1; return {"messages": [message]}
chatbot(message) ==
    /\ hitl_run.status = "running"
    /\ hitl_pc = "chatbot"
    /\ hitl_turns < MaxTurns
    /\ hitl_turns' = hitl_turns + 1
    /\ LET run == [hitl_run EXCEPT !.trace = Append(@, "chatbot")]
       IN  IF message.tool_calls <= 1
           THEN /\ hitl_msgs' = Append(hitl_msgs, message)
                /\ Continue(run, AfterChatbot(message))
           ELSE \* AssertionError leaves the node, the graph and the stream
                /\ hitl_run' = EndRun(run, "error")
                /\ hitl_pc' = "none"
                /\ UNCHANGED <<hitl_msgs, hitl_next>>
    /\ UNCHANGED <<hitl_resume, notHitl>>

\* the tools node starts: ToolNode calls human_assistance(query) for the
\* tool call of the last AI message
tools_start ==
    /\ hitl_run.status = "running"
    /\ hitl_pc = "tools"
    /\ hitl_pc' = "human_assistance"
    /\ hitl_run' = [hitl_run EXCEPT !.trace = @ \o <<"tools", "human_assistance">>]
    /\ UNCHANGED <<hitl_msgs, hitl_next, hitl_turns, hitl_resume, notHitl>>

\* human_assistance: print(f"interrupt ...: {query}")
ha_print ==
    /\ hitl_run.status = "running"
    /\ hitl_pc = "human_assistance"
    /\ hitl_pc' = "interrupt"
    /\ hitl_run' = [hitl_run EXCEPT !.trace = Append(@, "print")]
    /\ UNCHANGED <<hitl_msgs, hitl_next, hitl_turns, hitl_resume, notHitl>>

\* an interrupt that saves the thread as if the tools node were done: the
\* nodes behind its edge become the pending ones
ha_interrupt_advancing ==
    /\ hitl_run.status = "running"
    /\ hitl_pc = "interrupt"
    /\ IF hitl_resume = None
       THEN /\ hitl_run' = EndRun([hitl_run EXCEPT !.trace = Append(@, "interrupt.raise")],
                                  "interrupted")
            /\ hitl_pc' = "none"
            /\ hitl_next' = AfterTools
            /\ UNCHANGED hitl_resume
       ELSE /\ hitl_run' = [hitl_run EXCEPT !.trace = Append(@, "interrupt.return"),
                                            !.interrupt_ret = hitl_resume]
            /\ hitl_pc' = "return"
            /\ hitl_resume' = None
            /\ UNCHANGED hitl_next
    /\ UNCHANGED <<hitl_msgs, hitl_turns, notHitl>>

\* an interrupt that leaves the thread with no pending node
ha_interrupt_clearing ==
    /\ hitl_run.status = "running"
    /\ hitl_pc = "interrupt"
    /\ IF hitl_resume = None
       THEN /\ hitl_run' = EndRun([hitl_run EXCEPT !.trace = Append(@, "interrupt.raise")],
                                  "interrupted")
            /\ hitl_pc' = "none"
            /\ hitl_next' = <<>>
            /\ UNCHANGED hitl_resume
       ELSE /\ hitl_run' = [hitl_run EXCEPT !.trace = Append(@, "interrupt.return"),
                                            !.interrupt_ret = hitl_resume]
            /\ hitl_pc' = "return"
            /\ hitl_resume' = None
            /\ UNCHANGED hitl_next
    /\ UNCHANGED <<hitl_msgs, hitl_turns, notHitl>>

\* human_assistance: human_response = interrupt({"query": query})
\* without a resume value interrupt raises GraphInterrupt: the node is left
\* unfinished, the thread keeps its checkpoint and the stream ends; with one
\* it returns that value
ha_interrupt ==
    /\ hitl_run.status = "running"
    /\ hitl_pc = "interrupt"
    /\ IF hitl_resume = None
       THEN /\ hitl_run' = EndRun([hitl_run EXCEPT !.trace = Append(@, "interrupt.raise")],
                                  "interrupted")
            /\ hitl_pc' = "none"
            /\ UNCHANGED hitl_resume
       ELSE /\ hitl_run' = [hitl_run EXCEPT !.trace = Append(@, "interrupt.return"),
                                            !.interrupt_ret = hitl_resume]
            /\ hitl_pc' = "return"
            /\ hitl_resume' = None
    /\ UNCHANGED <<hitl_msgs, hitl_next, hitl_turns, notHitl>>

\* human_assistance: return human_response["data"]; ToolNode wraps it in a
\* ToolMessage, the tools node is done and its edge is followed
ha_return ==
    /\ hitl_run.status = "running"
    /\ hitl_pc = "return"
    /\ hitl_msgs' = Append(hitl_msgs, ToolMessage(hitl_run.interrupt_ret.value.data))
    /\ Continue([hitl_run EXCEPT !.trace = Append(@, "tools.done")], AfterTools)
    /\ UNCHANGED <<hitl_turns, hitl_resume, notHitl>>

\* a stream that behaves as a list does: a second for loop over it
\* delivers its events again
iterate_again_replaying ==
    /\ hitl_run.status = "ended"
    /\ hitl_run.reiterated < MaxReiterate
    /\ hitl_run' = [hitl_run EXCEPT !.reiterated = @ + 1,
                                    !.events = @ \o hitl_run.events]
    /\ UNCHANGED <<hitl_msgs, hitl_next, hitl_turns, hitl_resume, hitl_pc, notHitl>>

\* for event in events, once more over a stream that has ended: the
\* generator is exhausted, the loop's body is not entered and no node runs
iterate_again ==
    /\ hitl_run.status = "ended"
    /\ hitl_run.reiterated < MaxReiterate
    /\ hitl_run' = [hitl_run EXCEPT !.reiterated = @ + 1]
    /\ UNCHANGED <<hitl_msgs, hitl_next, hitl_turns, hitl_resume, hitl_pc, notHitl>>

StreamResume == \E h \in HumanInputs : stream_resume(h)
Chatbot == \E m \in LlmReplies : chatbot(m)

HitlNext ==
    stream_input \/ StreamResume \/ stream_begin \/ Chatbot \/ tools_start
    \/ ha_print \/ ha_interrupt \/ ha_return \/ iterate_again

-----------------------------------------------------------------------------
(* langgraph_base/b-*/state_snapshot_demo.py: the graph of                    *)
(* create_simple_graph, START -> node_a -> node_b (interrupt) -> node_c ->    *)
(* END, the one-node simple_graph, and the two demo functions, which any      *)
(* caller of the module may call in any order (main calls each once).         *)

\* bound: demo function calls
MaxCalls == 3

\* add_edge(...): the nodes to run after node n has written its update
SnapAfter(n) ==
    CASE n = "START" -> <<"node_a">>
      [] n = "node_a" -> <<"node_b">>
      [] n = "node_b" -> <<"node_c">>
      [] n = "node_c" -> <<>>
      [] n = "simple.START" -> <<"simple">>
      [] n = "simple" -> <<>>

\* a node's return value for 'counter' (the key has no reducer: the update
\* replaces the value)
SnapUpdate(n, counter) == IF n = "simple" THEN 1 ELSE counter + 1

\* graph.get_state(config) for a thread_id the checkpointer has nothing for
NoCheckpoint == [exists |-> FALSE, counter |-> 0, next |-> <<>>,
                 interrupts |-> 0, ran |-> <<>>]

\* compile(checkpointer=MemorySaver()) for both graphs
NewSavers == [graph |-> EmptyDict, simple_graph |-> EmptyDict]

NoGen == [status |-> "none", graph |-> "none", thread |-> "none",
          input |-> "none", resume |-> FALSE, events |-> 0, end |-> "none"]

\* graph.get_state({"configurable": {"thread_id": thread}})
get_state(g, thread) == DictGet(snap_cp[g], thread, NoCheckpoint)

\* g.stream(input, config, stream_mode="values"): a generator, nothing runs
SnapStream(g, thread, input) ==
    [NoGen EXCEPT !.status = "created", !.graph = g, !.thread = thread,
                  !.input = input]

\* the checkpointer of the generator's graph with cp saved for its thread
Saved(gen, cp) ==
    [snap_cp EXCEPT ![gen.graph] = DictSet(@, gen.thread, cp)]

\* one step of 'for event in events' on a generator that has not ended: the
\* first one applies the input (or takes the resume value), the later ones
\* run the pending node; interrupt() in node_b without a resume value ends
\* the generator and leaves node_b pending
SnapStep ==
    LET gen == snap_gen
        cp == get_state(gen.graph, gen.thread)
        start == IF gen.graph = "graph" THEN "START" ELSE "simple.START"
    IN  IF gen.status = "created"
        THEN IF gen.input = "input"
             THEN /\ snap_cp' = Saved(gen, [exists |-> TRUE, counter |-> 0,
                                            next |-> SnapAfter(start),
                                            interrupts |-> 0, ran |-> <<>>])
                  /\ snap_gen' = [gen EXCEPT !.status = "running", !.events = @ + 1]
             ELSE /\ snap_gen' = [gen EXCEPT !.status = "running", !.resume = TRUE]
                  /\ UNCHANGED snap_cp
        ELSE LET n == cp.next[1]
             IN  IF n = "node_b" /\ ~ gen.resume
                 THEN /\ snap_cp' = Saved(gen, [cp EXCEPT !.interrupts = 1])
                      /\ snap_gen' = [gen EXCEPT !.status = "ended",
                                                 !.end = "interrupted"]
                 ELSE /\ snap_cp' = Saved(gen,
                            [cp EXCEPT !.counter = SnapUpdate(n, @),
                                       !.next = SnapAfter(n),
                                       !.interrupts = 0,
                                       !.ran = Append(@, n)])
                      /\ snap_gen' =
                            [gen EXCEPT !.events = @ + 1,
                                        !.resume = IF n = "node_b" THEN FALSE ELSE @,
                                        !.status = IF SnapAfter(n) = <<>>
                                                   THEN "ended" ELSE "running",
                                        !.end = IF SnapAfter(n) = <<>>
                                                THEN "completed" ELSE "none"]

\* what a demo function prints about a snapshot
Report(fn, step, thread, snapshot) ==
    [fn |-> fn, step |-> step, thread |-> thread, next |-> snapshot.next,
     interrupts |-> snapshot.interrupts, ran |-> snapshot.ran,
     interrupted |-> snapshot.next # <<>>]

SnapInit ==
    /\ snap_pc = "idle"
    /\ snap_cp = NewSavers
    /\ snap_gen = NoGen
    /\ snap_out = <<>>
    /\ snap_calls = 0

\* demonstrate_state_snapshot(): graph = create_simple_graph()
call_demonstrate_state_snapshot ==
    /\ snap_pc = "idle"
    /\ snap_calls < MaxCalls
    /\ snap_calls' = snap_calls + 1
    /\ snap_cp' = NewSavers
    /\ snap_gen' = NoGen
    /\ snap_pc' = "snapshot.stream"
    /\ UNCHANGED <<snap_out, notSnap>>

\* events = graph.stream(initial_state, config, stream_mode="values")
snapshot_stream ==
    /\ snap_pc = "snapshot.stream"
    /\ snap_gen' = SnapStream("graph", "demo-session", "input")
    /\ snap_pc' = "snapshot.for"
    /\ UNCHANGED <<snap_cp, snap_out, snap_calls, notSnap>>

\* for event in events: print(...), both loops of the function
snapshot_for ==
    /\ snap_pc \in {"snapshot.for", "snapshot.resume_for"}
    /\ snap_gen.status # "ended"
    /\ SnapStep
    /\ UNCHANGED <<snap_pc, snap_out, snap_calls, notSnap>>

\* snapshot = graph.get_state(config); if snapshot.next: ... else: ...
snapshot_get_state ==
    /\ snap_pc = "snapshot.for"
    /\ snap_gen.status = "ended"
    /\ LET snapshot == get_state("graph", "demo-session")
       IN  /\ snap_out' = Append(snap_out,
                  Report("demonstrate_state_snapshot", 1, "demo-session", snapshot))
           /\ snap_pc' = IF snapshot.next # <<>> THEN "snapshot.resume" ELSE "idle"
    /\ UNCHANGED <<snap_cp, snap_gen, snap_calls, notSnap>>

\* events = graph.stream(Command(resume={...}), config, stream_mode="values")
snapshot_resume ==
    /\ snap_pc = "snapshot.resume"
    /\ snap_gen' = SnapStream("graph", "demo-session", "resume")
    /\ snap_pc' = "snapshot.resume_for"
    /\ UNCHANGED <<snap_cp, snap_out, snap_calls, notSnap>>

\* snapshot_after = graph.get_state(config)
snapshot_get_state_after ==
    /\ snap_pc = "snapshot.resume_for"
    /\ snap_gen.status = "ended"
    /\ snap_out' = Append(snap_out,
           Report("demonstrate_state_snapshot", 2, "demo-session",
                  get_state("graph", "demo-session")))
    /\ snap_pc' = "idle"
    /\ UNCHANGED <<snap_cp, snap_gen, snap_calls, notSnap>>

\* demonstrate_state_comparison(): graph = create_simple_graph();
\* simple_graph = simple_graph_builder.compile(checkpointer=MemorySaver())
call_demonstrate_state_comparison ==
    /\ snap_pc = "idle"
    /\ snap_calls < MaxCalls
    /\ snap_calls' = snap_calls + 1
    /\ snap_cp' = NewSavers
    /\ snap_gen' = NoGen
    /\ snap_pc' = "comparison.stream1"
    /\ UNCHANGED <<snap_out, notSnap>>

\* simple_graph.stream({"messages": [], "counter": 0}, config1, ...): the
\* generator is not bound to a name and not iterated
comparison_stream1 ==
    /\ snap_pc = "comparison.stream1"
    /\ snap_gen' = SnapStream("simple_graph", "normal-completion", "input")
    /\ snap_pc' = "comparison.get_state1"
    /\ UNCHANGED <<snap_cp, snap_out, snap_calls, notSnap>>

\* snapshot1 = simple_graph.get_state(config1); print(...)
comparison_get_state1 ==
    /\ snap_pc = "comparison.get_state1"
    /\ snap_out' = Append(snap_out,
           Report("demonstrate_state_comparison", 1, "normal-completion",
                  get_state("simple_graph", "normal-completion")))
    /\ snap_pc' = "comparison.stream2"
    /\ UNCHANGED <<snap_cp, snap_gen, snap_calls, notSnap>>

\* graph.stream({"messages": [], "counter": 0}, config2, ...): again the
\* generator is dropped without being iterated
comparison_stream2 ==
    /\ snap_pc = "comparison.stream2"
    /\ snap_gen' = SnapStream("graph", "interrupted", "input")
    /\ snap_pc' = "comparison.get_state2"
    /\ UNCHANGED <<snap_cp, snap_out, snap_calls, notSnap>>

\* snapshot2 = graph.get_state(config2); print(...)
comparison_get_state2 ==
    /\ snap_pc = "comparison.get_state2"
    /\ snap_out' = Append(snap_out,
           Report("demonstrate_state_comparison", 2, "interrupted",
                  get_state("graph", "interrupted")))
    /\ snap_pc' = "idle"
    /\ UNCHANGED <<snap_cp, snap_gen, snap_calls, notSnap>>

SnapNext ==
    call_demonstrate_state_snapshot \/ snapshot_stream \/ snapshot_for
    \/ snapshot_get_state \/ snapshot_resume \/ snapshot_get_state_after
    \/ call_demonstrate_state_comparison \/ comparison_stream1
    \/ comparison_get_state1 \/ comparison_stream2 \/ comparison_get_state2

-----------------------------------------------------------------------------
(* langgraph_base/b-*/human_review_example.py: the tool that                  *)
(* add_human_in_the_loop(book_hotel_simple) returns, inside the agent of      *)
(* example_wrapper_tool (create_react_agent with an InMemorySaver): the LLM   *)
(* either answers or calls the tool, the tool interrupts, and the run is      *)
(* resumed with Command(resume=[response]).                                   *)

\* bound: tool calls the LLM makes in one thread
MaxToolCalls == 2

HotelNames == {"McKittrick", "Plaza"}

\* the arguments the LLM calls the tool with
ToolInputs == {[hotel_name |-> h] : h \in HotelNames}

\* what the human resumes with: Command(resume=[response])
Responses ==
    {[type |-> "accept"]}
    \cup {[type |-> "edit", args |-> [args |-> a]] : a \in ToolInputs}
    \cup {[type |-> "response", args |-> "feedback"]}
    \cup {[type |-> t] : t \in {"ignore", "reject"}}

\* book_hotel_simple(hotel_name): its return value
book_hotel_simple(tool_input) == [booked |-> tool_input.hotel_name]

\* a tool call the LLM has made: how often the wrapper was entered for it,
\* the response the human gave, how the wrapper ended and what it returned
NewCall(args) ==
    [args |-> args, entered |-> 0, response |-> None, outcome |-> "pending",
     result |-> None]

\* the tool call the tools node is working on
Current == Len(rev_calls)

RevInit ==
    /\ rev_status = "none"
    /\ rev_pc = "none"
    /\ rev_calls = <<>>
    /\ rev_resume = None
    /\ rev_input = None
    /\ rev_response = None
    /\ rev_log = <<>>

\* for chunk in agent.stream({"messages": [HumanMessage(...)]}, config)
agent_stream ==
    /\ rev_status = "none"
    /\ rev_status' = "running"
    /\ rev_pc' = "agent"
    /\ UNCHANGED <<rev_calls, rev_resume, rev_input, rev_response, rev_log, notRev>>

\* for chunk in agent.stream(Command(resume=[response]), config): the
\* interrupted tools node is run again from its beginning
agent_resume(response) ==
    /\ rev_status = "interrupted"
    /\ rev_status' = "running"
    /\ rev_resume' = Value(<<response>>)
    /\ rev_calls' = [rev_calls EXCEPT ![Current].response = Value(response)]
    /\ rev_pc' = "tools"
    /\ UNCHANGED <<rev_input, rev_response, rev_log, notRev>>

\* the agent node: the LLM answers (the run completes) or calls the tool
agent_answer ==
    /\ rev_status = "running"
    /\ rev_pc = "agent"
    /\ rev_status' = "completed"
    /\ rev_pc' = "none"
    /\ UNCHANGED <<rev_calls, rev_resume, rev_input, rev_response, rev_log, notRev>>

agent_tool_call(args) ==
    /\ rev_status = "running"
    /\ rev_pc = "agent"
    /\ Len(rev_calls) < MaxToolCalls
    /\ rev_calls' = Append(rev_calls, NewCall(args))
    /\ rev_pc' = "tools"
    /\ UNCHANGED <<rev_status, rev_resume, rev_input, rev_response, rev_log, notRev>>

\* the tools node calls call_tool_with_interrupt(config, **tool_input):
\* request = {"action_request": {"action": tool.name, "args": tool_input}, ...}
call_tool_with_interrupt ==
    /\ rev_status = "running"
    /\ rev_pc = "tools"
    /\ rev_input' = Value(rev_calls[Current].args)
    /\ rev_response' = None
    /\ rev_calls' = [rev_calls EXCEPT ![Current].entered = @ + 1]
    /\ rev_pc' = "interrupt"
    /\ UNCHANGED <<rev_status, rev_resume, rev_log, notRev>>

\* response = interrupt([request])[0]: without a resume value interrupt
\* raises GraphInterrupt and the run pauses; with one it returns it
wrapper_interrupt ==
    /\ rev_status = "running"
    /\ rev_pc = "interrupt"
    /\ IF rev_resume = None
       THEN /\ rev_status' = "interrupted"
            /\ rev_pc' = "none"
            /\ rev_input' = None
            /\ UNCHANGED <<rev_resume, rev_response>>
       ELSE /\ rev_response' = Value(rev_resume.value[1])
            /\ rev_resume' = None
            /\ rev_pc' = "branch"
            /\ UNCHANGED <<rev_status, rev_input>>
    /\ UNCHANGED <<rev_calls, rev_log, notRev>>

\* the wrapper returns tool_response: the tools node makes it the content
\* of the ToolMessage and the agent node runs next
Return(tool_response) ==
    /\ rev_calls' = [rev_calls EXCEPT ![Current].outcome = "returned",
                                      ![Current].result = Value(tool_response)]
    /\ rev_pc' = "agent"
    /\ rev_input' = None
    /\ rev_response' = None
    /\ UNCHANGED rev_status

\* tool.invoke(tool_input, config)
Invoke(tool_input) ==
    rev_log' = Append(rev_log, [call |-> Current, args |-> tool_input])

\* a wrapper whose edit branch forgets to replace tool_input
wrapper_branch_edit_dropped ==
    /\ rev_status = "running"
    /\ rev_pc = "branch"
    /\ LET response == rev_response.value
           tool_input == rev_input.value
       IN  CASE response.type \in {"accept", "edit"} ->
                  /\ Invoke(tool_input)
                  /\ Return(book_hotel_simple(tool_input))
             [] response.type = "response" ->
                  /\ Return(response.args)
                  /\ UNCHANGED rev_log
             [] OTHER ->
                  /\ rev_calls' = [rev_calls EXCEPT ![Current].outcome = "ValueError"]
                  /\ rev_status' = "error"
                  /\ rev_pc' = "none"
                  /\ rev_input' = None
                  /\ rev_response' = None
                  /\ UNCHANGED rev_log
    /\ UNCHANGED <<rev_resume, notRev>>

\* if response["type"] == "accept": ... elif "edit": ... elif "response":
\* ... else: raise ValueError(...); return tool_response.  The ValueError
\* leaves the wrapper; the tools node either lets it end the run or, when
\* it handles tool errors, turns it into the tool's message
wrapper_branch ==
    /\ rev_status = "running"
    /\ rev_pc = "branch"
    /\ LET response == rev_response.value
           tool_input == rev_input.value
       IN  CASE response.type = "accept" ->
                  /\ Invoke(tool_input)
                  /\ Return(book_hotel_simple(tool_input))
             [] response.type = "edit" ->
                  /\ Invoke(response.args.args)
                  /\ Return(book_hotel_simple(response.args.args))
             [] response.type = "response" ->
                  /\ Return(response.args)
                  /\ UNCHANGED rev_log
             [] OTHER ->
                  /\ rev_calls' = [rev_calls EXCEPT ![Current].outcome = "ValueError"]
                  /\ \/ rev_status' = "error" /\ rev_pc' = "none"
                     \/ rev_status' = rev_status /\ rev_pc' = "agent"
                  /\ rev_input' = None
                  /\ rev_response' = None
                  /\ UNCHANGED rev_log
    /\ UNCHANGED <<rev_resume, notRev>>

AgentResume == \E r \in Responses : agent_resume(r)
AgentToolCall == \E a \in ToolInputs : agent_tool_call(a)

RevNext ==
    agent_stream \/ AgentResume \/ agent_answer \/ AgentToolCall
    \/ call_tool_with_interrupt \/ wrapper_interrupt \/ wrapper_branch

-----------------------------------------------------------------------------
(* langgraph_base/d-*/custom_state_demo.py: the graph                         *)
(*   START -> chatbot -> (tools_condition) -> tools -> chatbot ... -> END     *)
(* with the tools tavily_search_results_json and human_assistance, compiled   *)
(* with a MemorySaver and driven as run_example drives it.                    *)

\* bound: LLM replies in one thread
MaxReplies == 3

Search == "tavily_search_results_json"
Assistance == "human_assistance"

\* what llm_with_tools.invoke returns: a message with its tool calls, each
\* the name of the tool called
CsReplies ==
    {[type |-> "ai", tool_calls |-> c] :
        c \in {<<>>, <<Search>>, <<Assistance>>, <<Search, Assistance>>}}

\* the arguments the LLM gives human_assistance
LlmFound == [name |-> "LangGraph", birthday |-> "Jan 2023"]

\* what the human resumes with: {"correct": "yes"} or a correction
HumanResponses ==
    {[correct |-> "yes"], [name |-> "LangGraph", birthday |-> "Jan 17, 2024"]}

\* human_assistance after interrupt() has returned human_response: the
\* verified fields and the text of the ToolMessage
Verified(human_response) ==
    IF "correct" \in DOMAIN human_response
    THEN [name |-> LlmFound.name, birthday |-> LlmFound.birthday,
          response |-> "Correct"]
    ELSE [name |-> human_response.name, birthday |-> human_response.birthday,
          response |-> "Made a correction"]

CsInit ==
    /\ cs_state = [messages |-> <<>>, name |-> None, birthday |-> None]
    /\ cs_next = <<>>
    /\ cs_pc = "none"
    /\ cs_resume = None
    /\ cs_run = [status |-> "none", replies |-> 0]
    /\ cs_exec = <<>>

\* the tool call the tools node is to execute: the one of the last message
PendingCall == Len(cs_state.messages)
PendingTool == cs_state.messages[PendingCall].tool_calls[1]

\* events = graph.stream({"messages": [...]}, config, ...); for event in events
cs_stream_input ==
    /\ cs_run.status = "none"
    /\ cs_run' = [cs_run EXCEPT !.status = "running"]
    /\ cs_state' = [cs_state EXCEPT
                      !.messages = Append(@, [type |-> "human", tool_calls |-> <<>>])]
    /\ cs_next' = <<"chatbot">>
    /\ cs_pc' = "chatbot"
    /\ UNCHANGED <<cs_resume, cs_exec, notCs>>

\* events = graph.stream(Command(resume={...}), config, ...); for event in
\* events: the interrupted tools node is run again from its beginning
cs_stream_resume(human_response) ==
    /\ cs_run.status = "interrupted"
    /\ cs_run' = [cs_run EXCEPT !.status = "running"]
    /\ cs_resume' = Value(human_response)
    /\ cs_pc' = cs_next[1]
    /\ UNCHANGED <<cs_state, cs_next, cs_exec, notCs>>

\* a chatbot node without the assertion
cs_chatbot_unasserted(message) ==
    /\ cs_run.status = "running"
    /\ cs_pc = "chatbot"
    /\ cs_run.replies < MaxReplies
    /\ cs_state' = [cs_state EXCEPT !.messages = Append(@, message)]
    /\ IF message.tool_calls # <<>>
       THEN /\ cs_next' = <<"tools">>
            /\ cs_pc' = "tools"
            /\ cs_run' = [cs_run EXCEPT !.replies = @ + 1]
       ELSE /\ cs_next' = <<>>
            /\ cs_pc' = "none"
            /\ cs_run' = [cs_run EXCEPT !.replies = @ + 1, !.status = "completed"]
    /\ UNCHANGED <<cs_resume, cs_exec, notCs>>

\* the chatbot node: message = llm_with_tools.invoke(state["messages"]);
\* assert len(message.tool_calls) <= 1; return {"messages": [message]};
\* tools_condition then routes to tools or END
cs_chatbot(message) ==
    /\ cs_run.status = "running"
    /\ cs_pc = "chatbot"
    /\ cs_run.replies < MaxReplies
    /\ IF Len(message.tool_calls) <= 1
       THEN /\ cs_state' = [cs_state EXCEPT !.messages = Append(@, message)]
            /\ IF message.tool_calls # <<>>
               THEN /\ cs_next' = <<"tools">>
                    /\ cs_pc' = "tools"
                    /\ cs_run' = [cs_run EXCEPT !.replies = @ + 1]
               ELSE /\ cs_next' = <<>>
                    /\ cs_pc' = "none"
                    /\ cs_run' = [cs_run EXCEPT !.replies = @ + 1,
                                                !.status = "completed"]
       ELSE \* AssertionError leaves the node, the graph and the stream
            /\ cs_run' = [cs_run EXCEPT !.replies = @ + 1, !.status = "error"]
            /\ cs_pc' = "none"
            /\ UNCHANGED <<cs_state, cs_next>>
    /\ UNCHANGED <<cs_resume, cs_exec, notCs>>

\* the tools node executes tavily_search_results_json(query): the result
\* becomes a ToolMessage and the edge tools -> chatbot is followed
tools_search ==
    /\ cs_run.status = "running"
    /\ cs_pc = "tools"
    /\ PendingTool = Search
    /\ cs_exec' = cs_exec \o <<[call |-> PendingCall, tool |-> Search, what |-> "start"],
                               [call |-> PendingCall, tool |-> Search, what |-> "done"]>>
    /\ cs_state' = [cs_state EXCEPT
                      !.messages = Append(@, [type |-> "tool", tool_calls |-> <<>>,
                                              call |-> PendingCall,
                                              content |-> "results"])]
    /\ cs_next' = <<"chatbot">>
    /\ cs_pc' = "chatbot"
    /\ UNCHANGED <<cs_resume, cs_run, notCs>>

\* the tools node executes human_assistance(name, birthday, tool_call_id):
\* human_response = interrupt({...}) raises GraphInterrupt when there is no
\* resume value (the run pauses, tools stays pending); with one, the tool
\* returns Command(update={"name", "birthday", "messages": [ToolMessage]})
tools_human_assistance ==
    /\ cs_run.status = "running"
    /\ cs_pc = "tools"
    /\ PendingTool = Assistance
    /\ LET started == Append(cs_exec, [call |-> PendingCall, tool |-> Assistance,
                                       what |-> "start"])
       IN  IF cs_resume = None
           THEN /\ cs_exec' = started
                /\ cs_run' = [cs_run EXCEPT !.status = "interrupted"]
                /\ cs_pc' = "none"
                /\ UNCHANGED <<cs_state, cs_next, cs_resume>>
           ELSE LET v == Verified(cs_resume.value)
                IN  /\ cs_exec' = Append(started, [call |-> PendingCall,
                                                   tool |-> Assistance,
                                                   what |-> "done"])
                    /\ cs_state' =
                          [messages |-> Append(cs_state.messages,
                                          [type |-> "tool", tool_calls |-> <<>>,
                                           call |-> PendingCall,
                                           content |-> v.response]),
                           name |-> Value(v.name),
                           birthday |-> Value(v.birthday)]
                    /\ cs_resume' = None
                    /\ cs_next' = <<"chatbot">>
                    /\ cs_pc' = "chatbot"
                    /\ UNCHANGED cs_run
    /\ UNCHANGED notCs

\* graph.update_state(config, {"name": "LangGraph (library)"}), once the
\* streams of run_example have ended
update_state ==
    /\ cs_run.status \in {"interrupted", "completed"}
    /\ cs_state.name # Value("LangGraph (library)")
    /\ cs_state' = [cs_state EXCEPT !.name = Value("LangGraph (library)")]
    /\ UNCHANGED <<cs_next, cs_pc, cs_resume, cs_run, cs_exec, notCs>>

CsStreamResume == \E h \in HumanResponses : cs_stream_resume(h)
CsChatbot == \E m \in CsReplies : cs_chatbot(m)

CsNext ==
    cs_stream_input \/ CsStreamResume \/ CsChatbot \/ tools_search
    \/ tools_human_assistance \/ update_state

\* a program runs one of the two graphs that limit the chatbot to one tool
\* call: the human-in-the-loop graph or the custom-state graph
ToolCallsNext ==
    \/ cs_run.status = "none" /\ HitlNext
    \/ hitl_run.status = "none" /\ CsNext

-----------------------------------------------------------------------------
(* langgraph_base/basic_chatbot.py: the graph START -> chatbot compiled with  *)
(* an InMemorySaver, and the chat loop of run_chatbot.                        *)

\* bound: input() calls in one run of the loop
MaxInputs == 4

\* what the user types
UserInputs == {"quit", "CLEAR", "reset", " ", "hello", "clear "}

\* str.lower() and str.strip() on those inputs
Lower(u) == IF u = "CLEAR" THEN "clear" ELSE u
Strip(u) == CASE u = " " -> "" [] u = "clear " -> "clear" [] OTHER -> u

QuitCommands == {"quit", "exit", "q"}
ClearCommands == {"clear", "reset"}

\* thread_id = "basic-chatbot-session"
BaseThread == [session |-> "basic-chatbot-session", suffix |-> None]

\* thread_id = f"basic-chatbot-session-{uuid.uuid4().hex[:8]}": uuid4 is
\* taken to return a value it has not returned before; n stands for the
\* n-th such value
NewThread(n) == [session |-> "basic-chatbot-session", suffix |-> Value(n)]

\* the messages the checkpointer holds for thread
Messages(store, thread) == DictGet(store, thread, <<>>)

\* stream_graph_updates(graph, user_input, config): the input is added to
\* the thread's messages (add_messages), chatbot calls llm.invoke on all of
\* them and, unless the LLM raises, its response is added too.
\* Gives the store, the log and the llm.invoke calls afterwards
Ask(text, ok, st) ==
    LET user == [role |-> "human", text |-> text, epoch |-> bot_epoch,
                 n |-> Len(st.log) + 1]
        reply == [role |-> "ai", text |-> "reply", epoch |-> bot_epoch,
                  n |-> Len(st.log) + 2]
        given == Append(Messages(st.store, bot_thread), user)
    IN  [store |-> DictSet(st.store, bot_thread,
                           IF ok THEN Append(given, reply) ELSE given),
         log |-> IF ok THEN st.log \o <<user, reply>> ELSE Append(st.log, user),
         seen |-> Append(st.seen, [thread |-> bot_thread, epoch |-> bot_epoch,
                                   upto |-> Len(st.log) + 1, history |-> given]),
         ok |-> st.ok /\ ok]

BotNow == [store |-> bot_store, log |-> bot_log, seen |-> bot_seen, ok |-> TRUE]

BotInit ==
    /\ bot_status = "running"
    /\ bot_thread = BaseThread
    /\ bot_store = EmptyDict
    /\ bot_epoch = 0
    /\ bot_log = <<>>
    /\ bot_seen = <<>>
    /\ bot_inputs = 0

\* the loop leaves the graph's memory as it is
BotAfter(st) ==
    /\ bot_store' = st.store
    /\ bot_log' = st.log
    /\ bot_seen' = st.seen

\* a clear command that keeps the thread_id
clear_keeping_thread(n) == bot_thread

\* if user_input.lower() in ["clear", "reset"]: a new thread_id and config
clear(n) == NewThread(n)

\* one turn of the while loop: user_input = input(...) returns u; quit
\* commands break, clear commands change the thread and continue, other
\* non-blank inputs go to the graph (ok: the LLM answers; otherwise the
\* exception is printed and the loop breaks), blank ones are refused; ok
\* matters only to the inputs that reach the graph
chat_turn(u, ok) ==
    /\ bot_status = "running"
    /\ bot_inputs < MaxInputs
    /\ bot_inputs' = bot_inputs + 1
    /\ CASE Lower(u) \in QuitCommands ->
              /\ bot_status' = "ended"
              /\ UNCHANGED <<bot_thread, bot_store, bot_epoch, bot_log, bot_seen>>
         [] Lower(u) \in ClearCommands ->
              /\ bot_thread' = clear(bot_epoch + 1)
              /\ bot_epoch' = bot_epoch + 1
              /\ ok
              /\ UNCHANGED <<bot_status, bot_store, bot_log, bot_seen>>
         [] Lower(u) \notin QuitCommands \cup ClearCommands /\ Strip(u) # "" ->
              /\ BotAfter(Ask(u, ok, BotNow))
              /\ bot_status' = IF ok THEN "running" ELSE "ended"
              /\ UNCHANGED <<bot_thread, bot_epoch>>
         [] OTHER ->
              /\ ok
              /\ UNCHANGED <<bot_status, bot_thread, bot_store, bot_epoch,
                             bot_log, bot_seen>>
    /\ UNCHANGED notBot

\* input() raises EOFError: the two sample questions are sent to the graph
\* under the current config and the loop breaks (an LLM failure on the
\* first one leaves the handler before the second is sent)
chat_eof(ok1, ok2) ==
    /\ bot_status = "running"
    /\ bot_inputs < MaxInputs
    /\ bot_inputs' = bot_inputs + 1
    /\ LET first == Ask("sample 1", ok1, BotNow)
       IN  IF ok1 THEN BotAfter(Ask("sample 2", ok2, first))
                  ELSE ok2 /\ BotAfter(first)
    /\ bot_status' = "ended"
    /\ UNCHANGED <<bot_thread, bot_epoch, notBot>>

\* input() raises KeyboardInterrupt: the loop breaks
chat_interrupt ==
    /\ bot_status = "running"
    /\ bot_status' = "ended"
    /\ UNCHANGED <<bot_thread, bot_store, bot_epoch, bot_log, bot_seen,
                   bot_inputs, notBot>>

ChatTurn == \E u \in UserInputs, ok \in BOOLEAN : chat_turn(u, ok)
ChatEof == \E ok1, ok2 \in BOOLEAN : chat_eof(ok1, ok2)

BotNext == ChatTurn \/ ChatEof \/ chat_interrupt

-----------------------------------------------------------------------------
(* langgraph_base/j-*/swarm_example.py: the swarm of create_swarm_system,     *)
(* flight_assistant and hotel_assistant with their handoff tools, invoked     *)
(* with a thread_id as example_swarm_memory invokes it.                       *)

\* bound: swarm.invoke calls
MaxInvocations == 3
\* bound: LLM replies in one invocation
MaxSteps == 2

Agents == {"flight_assistant", "hotel_assistant"}

\* create_swarm(..., default_active_agent="flight_assistant")
DefaultActiveAgent == "flight_assistant"

\* create_swarm(...).compile(): compiled without a checkpointer
HasCheckpointer == FALSE

ThreadIds == {"memory_demo_session", "another_session"}

\* create_handoff_tool(agent_name=...): the agent the handoff tool of agent
\* a transfers to
HandoffTarget(a) ==
    IF a = "flight_assistant" THEN "hotel_assistant" ELSE "flight_assistant"

\* the state an invocation on thread starts from: the thread's checkpoint
\* when the graph has a checkpointer that holds one, the empty state with
\* the default active agent otherwise
Loaded(thread) ==
    IF HasCheckpointer /\ thread \in DOMAIN sw_saved
    THEN sw_saved[thread]
    ELSE [messages |-> <<>>, active_agent |-> DefaultActiveAgent]

\* a message: who wrote it, in which invocation, at which place
SwMessage(role, state) ==
    [role |-> role, invocation |-> Len(sw_log), k |-> Len(state.messages) + 1]

SwInit ==
    /\ sw_status = "idle"
    /\ sw_state = [messages |-> <<>>, active_agent |-> DefaultActiveAgent]
    /\ sw_saved = EmptyDict
    /\ sw_steps = 0
    /\ sw_log = <<>>

\* swarm.invoke({"messages": [HumanMessage(...)]},
\*              config={"configurable": {"thread_id": thread}}): the input
\* is added to the state the invocation starts from and the active agent
\* of that state runs
swarm_invoke(thread) ==
    /\ sw_status = "idle"
    /\ Len(sw_log) < MaxInvocations
    /\ LET from == Loaded(thread)
           human == [role |-> "human", invocation |-> Len(sw_log) + 1,
                     k |-> Len(from.messages) + 1]
           start == [from EXCEPT !.messages = Append(@, human)]
       IN  /\ sw_state' = start
           /\ sw_log' = Append(sw_log,
                  [thread |-> thread, start |-> start.active_agent,
                   given |-> start.messages, ended |-> FALSE,
                   end |-> start.active_agent, final |-> start.messages])
    /\ sw_status' = "running"
    /\ sw_steps' = 0
    /\ UNCHANGED <<sw_saved, notSw>>

\* the active agent calls its booking tool (book_flight or book_hotel): the
\* call and the tool's result are added to the messages
agent_book ==
    /\ sw_status = "running"
    /\ sw_steps < MaxSteps
    /\ sw_steps' = sw_steps + 1
    /\ sw_state' = [sw_state EXCEPT !.messages =
            LET called == Append(@, SwMessage(sw_state.active_agent, sw_state))
            IN  Append(called, SwMessage("tool", [messages |-> called]))]
    /\ UNCHANGED <<sw_status, sw_saved, sw_log, notSw>>

\* the active agent calls its handoff tool: the call and the tool's message
\* are added and active_agent becomes the target
agent_handoff ==
    /\ sw_status = "running"
    /\ sw_steps < MaxSteps
    /\ sw_steps' = sw_steps + 1
    /\ sw_state' =
          [messages |->
              LET called == Append(sw_state.messages,
                                   SwMessage(sw_state.active_agent, sw_state))
              IN  Append(called, SwMessage("tool", [messages |-> called])),
           active_agent |-> HandoffTarget(sw_state.active_agent)]
    /\ UNCHANGED <<sw_status, sw_saved, sw_log, notSw>>

\* the active agent answers without a tool call: the invocation returns,
\* and a graph with a checkpointer has saved its state under the thread_id
agent_answer_end ==
    /\ sw_status = "running"
    /\ LET final == [sw_state EXCEPT !.messages =
                        Append(@, SwMessage(sw_state.active_agent, sw_state))]
       IN  /\ sw_state' = final
           /\ sw_saved' = IF HasCheckpointer
                          THEN DictSet(sw_saved, sw_log[Len(sw_log)].thread, final)
                          ELSE sw_saved
           /\ sw_log' = [sw_log EXCEPT ![Len(sw_log)].ended = TRUE,
                                       ![Len(sw_log)].end = final.active_agent,
                                       ![Len(sw_log)].final = final.messages]
    /\ sw_status' = "idle"
    /\ UNCHANGED <<sw_steps, notSw>>

SwarmInvoke == \E t \in ThreadIds : swarm_invoke(t)

SwNext == SwarmInvoke \/ agent_book \/ agent_handoff \/ agent_answer_end

-----------------------------------------------------------------------------
Init ==
    /\ SchedInit /\ EvInit /\ LlmInit /\ SmInit /\ ApiInit /\ HitlInit
    /\ StratInit
    /\ SnapInit
    /\ RevInit
    /\ CsInit
    /\ BotInit
    /\ SwInit

SpecSched == Init /\ [][SchedNext]_vars
SpecEvents == Init /\ [][EvNext]_vars
SpecLLM == Init /\ [][LlmNext]_vars
SpecState == Init /\ [][SmNext]_vars
SpecStrategy == Init /\ [][StratNext]_vars
SpecApi == Init /\ [][ApiNext]_vars
SpecHitl == Init /\ [][HitlNext]_vars
SpecSnap == Init /\ [][SnapNext]_vars
SpecReview == Init /\ [][RevNext]_vars
SpecToolCalls == Init /\ [][ToolCallsNext]_vars
SpecChatbot == Init /\ [][BotNext]_vars
SpecSwarm == Init /\ [][SwNext]_vars

-----------------------------------------------------------------------------
(* TaskScheduler: properties *)

\* C2: after any sequence of add_task calls, task_queue is ordered by
\* non-increasing priority: each entry's priority is >= that of the entry
\* behind it.
C2_QueueSortedByPriority ==
    \A i \in 1..(Len(task_queue) - 1) :
        task_queue[i].priority >= task_queue[i + 1].priority

\* C2 witness: a full queue with a negative priority at its end and two equal
\* priorities side by side, whose last add_task (priority 1) had to be moved
\* in front of entries added before it.
C2_Witness ==
    /\ sched_call.op = "add_task"
    /\ sched_call.arg = 1
    /\ Len(task_queue) = 4
    /\ task_queue[1].priority = 1
    /\ task_queue[2].priority = task_queue[3].priority
    /\ task_queue[4].priority = -1

\* C3: retry_task is an empty stub: it returns None, calls nothing on the
\* scheduler (no execute_task), and leaves task_queue (no re-enqueue),
\* running_tasks and the number of enqueued tasks as they were.
C3_RetryTaskIsStub ==
    [][sched_call'.op = "retry_task" =>
          /\ sched_call'.ret = None
          /\ sched_call'.calls = <<>>
          /\ task_queue' = task_queue
          /\ running_tasks' = running_tasks
          /\ add_calls' = add_calls]_vars

\* C3 witness: retry_task(task, 3) has returned for a task that is on a
\* queue of two or more entries.
C3_Witness ==
    /\ sched_call.op = "retry_task"
    /\ sched_call.arg = 3
    /\ Len(task_queue) >= 2
    /\ \E i \in 1..Len(task_queue) : task_queue[i].task = sched_call.task

\* C4: execute_task returns {"status": "success", "result": {}} for every
\* task in every scheduler state, and neither removes the task from
\* task_queue nor records it in running_tasks.
C4_ExecuteTaskHardcoded ==
    [][sched_call'.op = "execute_task" =>
          /\ sched_call'.ret = Value([status |-> "success", result |-> EmptyDict])
          /\ task_queue' = task_queue
          /\ running_tasks' = running_tasks]_vars

\* C4 witness: execute_task has returned for a task that was never added,
\* while other tasks are queued.
C4_Witness ==
    /\ sched_call.op = "execute_task"
    /\ task_queue # <<>>
    /\ \A i \in 1..Len(task_queue) : task_queue[i].task # sched_call.task

\* C4 witness for the other case: the executed task is on the queue.
C4_WitnessQueued ==
    /\ sched_call.op = "execute_task"
    /\ \E i \in 1..Len(task_queue) : task_queue[i].task = sched_call.task

-----------------------------------------------------------------------------
(* EventListener: properties *)

\* the handlers registered for event type et, in the order of the
\* register_handler calls
RECURSIVE RegisteredFor(_, _)
RegisteredFor(log, et) ==
    IF log = <<>> THEN <<>>
    ELSE IF Head(log)[1] = et
         THEN <<Head(log)[2]>> \o RegisteredFor(Tail(log), et)
         ELSE RegisteredFor(Tail(log), et)

\* s is a prefix of t
IsPrefix(s, t) == Len(s) <= Len(t) /\ s = SubSeq(t, 1, Len(s))

\* the rearrangements of sequence s
Rearrangements(s) ==
    {[i \in 1..Len(s) |-> s[p[i]]] : p \in Permutations(1..Len(s))}

\* C5: emit has no error isolation: when a handler registered for the
\* emitted event type raises, emit ends by raising that handler's exception,
\* the handlers registered before it have run, and the handlers registered
\* after it are not invoked.
C5_EmitNoErrorIsolation ==
    ev_call.op = "emit" =>
        LET hs == DictGet(handlers, ev_call.event_type, <<>>)
        IN  \A k \in 1..Len(hs) :
                (/\ HandlerRaises(hs[k], ev_call.arg)
                 /\ \A j \in 1..(k - 1) : ~HandlerRaises(hs[j], ev_call.arg))
                => /\ ev_call.outcome = Raised(HandlerError(hs[k]))
                   /\ ev_call.invoked = SubSeq(hs, 1, k)

\* C5 witness: an emit over three handlers whose second handler raised: the
\* first two were invoked, the third was not.
C5_Witness ==
    /\ ev_call.op = "emit"
    /\ ev_call.outcome.kind = "raised"
    /\ Len(DictGet(handlers, ev_call.event_type, <<>>)) = 3
    /\ Len(ev_call.invoked) = 2

\* C6 as stated: the order in which emit invokes the handlers of an event
\* type is not determined by the order of the register_handler calls: had
\* the same handlers been registered in any other order, emit would have
\* invoked them in the same order.
C6_OrderNotDetermined ==
    (ev_call.op = "emit" /\ ev_call.outcome = None) =>
        \A q \in Rearrangements(RegisteredFor(reg_log, ev_call.event_type)) :
            Dispatch(q, ev_call.arg).invoked = ev_call.invoked

\* C6 as amended: emit invokes the handlers of an event type in the order
\* of their register_handler calls (all of them when none raises, the ones
\* up to the first raising handler otherwise).
C6_EmitInRegistrationOrder ==
    ev_call.op = "emit" =>
        LET reg == RegisteredFor(reg_log, ev_call.event_type)
        IN  /\ IsPrefix(ev_call.invoked, reg)
            /\ ev_call.outcome = None => ev_call.invoked = reg

\* C6 witness: an emit that returned after invoking three handlers, the
\* first two of them different.
C6_Witness ==
    /\ ev_call.op = "emit"
    /\ ev_call.outcome = None
    /\ Len(ev_call.invoked) = 3
    /\ ev_call.invoked[1] # ev_call.invoked[2]

-----------------------------------------------------------------------------
(* LLMService: properties *)

\* the last generate call reached the client and the client raised
GenerateClientRaised ==
    /\ llm_call.op = "generate"
    /\ llm_call.calls # <<>>
    /\ llm_call.calls[1].result.kind = "raise"

\* C7 as stated: in generate and generate_stream an exception raised by the
\* underlying client reaches the caller unchanged, as the same exception
\* the client raised.
C7_ClientExceptionUnchanged ==
    /\ GenerateClientRaised =>
           llm_call.outcome = Raised(llm_call.calls[1].result.exc)
    /\ llm_stream.raised.kind = "raised" =>
           llm_stream.outcome = llm_stream.raised

\* C7 as amended: generate and generate_stream catch an exception raised by
\* the underlying client, log it, and raise to the caller a new LLMError
\* whose message is the service's prefix followed by str(e) and whose cause
\* is the client's exception; the caller does not get the client's
\* exception itself.
C7_ClientExceptionWrapped ==
    /\ GenerateClientRaised =>
           LET e == llm_call.calls[1].result.exc
           IN  /\ llm_call.outcome = Raised(LLMError(GenerateFailed, e))
               /\ llm_call.outcome.exc.cause = e
               /\ llm_call.outcome.exc # e
               /\ llm_call.logged = <<[event |-> GenerateFailed, error |-> Str(e)]>>
    /\ llm_stream.raised.kind = "raised" =>
           LET e == llm_stream.raised.exc
           IN  /\ llm_stream.outcome = Raised(LLMError(StreamFailed, e))
               /\ llm_stream.outcome.exc.cause = e
               /\ llm_stream.outcome.exc # e
               /\ llm_stream.logged = <<[event |-> StreamFailed, error |-> Str(e)]>>

\* C7 witness: a generate call whose ainvoke raised, and a stream whose
\* client raised after two chunks had been yielded.
C7_Witness ==
    /\ GenerateClientRaised
    /\ llm_stream.state = "failed"
    /\ llm_stream.raised.kind = "raised"
    /\ Len(llm_stream.yielded) = 2

\* C8: when the client does not fail, generate makes exactly one ainvoke
\* call with the given messages and keyword arguments and returns that
\* response's content unchanged, and generate_stream makes one astream call
\* with them and yields the content of every chunk, one output per chunk
\* and in the client's order.
C8_ThinPassThrough ==
    /\ (llm_call.op = "generate" /\ llm_call.outcome.kind = "value") =>
           /\ Len(llm_call.calls) = 1
           /\ llm_call.calls[1].method = "ainvoke"
           /\ llm_call.calls[1].messages = llm_call.messages
           /\ llm_call.calls[1].kwargs = llm_call.kwargs
           /\ llm_call.calls[1].result.kind = "ok"
           /\ llm_call.outcome = Value(llm_call.calls[1].result.response.content)
    /\ llm_stream.state \in {"running", "done"} =>
           /\ llm_stream.calls = <<[method |-> "astream",
                                    messages |-> llm_stream.messages,
                                    kwargs |-> llm_stream.kwargs]>>
           /\ Len(llm_stream.yielded) = Len(llm_stream.produced)
           /\ \A i \in 1..Len(llm_stream.produced) :
                  llm_stream.yielded[i] = llm_stream.produced[i].content

\* C8 witness: a generate call that returned an empty content with keyword
\* arguments, and a finished stream of three chunks with different contents.
C8_Witness ==
    /\ llm_call.op = "generate"
    /\ llm_call.outcome = Value("")
    /\ llm_call.kwargs # EmptyDict
    /\ llm_stream.state = "done"
    /\ Len(llm_stream.yielded) = 3
    /\ llm_stream.yielded[1] # llm_stream.yielded[2]

-----------------------------------------------------------------------------
(* StateManager: properties *)

\* C9: after any sequence of update_task_state, get_task_state and
\* save_session calls, get_task_state(id) returns the state passed to the
\* most recent update_task_state(id, ...), and {} when update_task_state
\* was never called for that id.
C9_GetReturnsLastUpdate ==
    sm_call.op = "get_task_state" =>
        sm_call.ret = Value(IF sm_call.id \in DOMAIN last_update
                            THEN last_update[sm_call.id]
                            ELSE EmptyDict)

\* C9 witness: get_task_state returns the non-empty state its task was last
\* updated with, while a session is saved and the other task id was never
\* updated.
C9_Witness ==
    /\ sm_call.op = "get_task_state"
    /\ sm_call.ret = Value([status |-> "done"])
    /\ session_states # EmptyDict
    /\ DOMAIN task_states = {sm_call.id}

\* C9 witness for the other case: get_task_state returns {} for an id that
\* update_task_state was never called with, while the other id has a state.
C9_WitnessUnknownId ==
    /\ sm_call.op = "get_task_state"
    /\ sm_call.id \notin DOMAIN last_update
    /\ sm_call.ret = Value(EmptyDict)
    /\ task_states # EmptyDict

\* the entries of dict d other than the one for key k are the same before
\* and after the step
OthersUnchanged(d, dAfter, k) ==
    /\ DOMAIN dAfter \ {k} = DOMAIN d \ {k}
    /\ \A x \in DOMAIN d \ {k} : dAfter[x] = d[x]

\* the frame of the StateManager call a step makes
UpdateTouchesOwnEntry ==
    sm_call'.op = "update_task_state" =>
        /\ OthersUnchanged(task_states, task_states', sm_call'.id)
        /\ session_states' = session_states
        /\ platform_states' = platform_states

SaveSessionTouchesSessions ==
    sm_call'.op = "save_session" =>
        /\ task_states' = task_states
        /\ platform_states' = platform_states
        /\ OthersUnchanged(session_states, session_states', sm_call'.id)

GetChangesNothing ==
    sm_call'.op = "get_task_state" =>
        /\ task_states' = task_states
        /\ session_states' = session_states
        /\ platform_states' = platform_states
        /\ (sm_call'.id \notin DOMAIN task_states =>
               sm_call'.id \notin DOMAIN task_states')

\* C21: StateManager operations touch only their own entry:
\* update_task_state(id, s) leaves the states of all other task ids,
\* session_states and platform_states unchanged; save_session leaves
\* task_states and platform_states unchanged; get_task_state changes
\* nothing, in particular it creates no entry for an unknown id.
C21_OperationsTouchOwnEntry ==
    [][UpdateTouchesOwnEntry /\ SaveSessionTouchesSessions
         /\ GetChangesNothing]_vars

\* C21 witness: get_task_state was called for an id that has no entry and
\* still has none, while the other task id has a state and a session is
\* saved.
C21_Witness ==
    /\ sm_call.op = "get_task_state"
    /\ sm_call.id \notin DOMAIN task_states
    /\ task_states # EmptyDict
    /\ session_states # EmptyDict

\* C21 witness for update_task_state: the call replaced the state of its
\* own id while the other task id and a session keep theirs.
C21_WitnessUpdate ==
    /\ sm_call.op = "update_task_state"
    /\ DOMAIN task_states = TaskIds
    /\ \E x \in TaskIds \ {sm_call.id} : task_states[x] # task_states[sm_call.id]
    /\ session_states # EmptyDict

\* C21 witness for save_session: a session was saved while both task ids
\* have a state.
C21_WitnessSave ==
    /\ sm_call.op = "save_session"
    /\ DOMAIN task_states = TaskIds
    /\ DOMAIN session_states = SessionIds

-----------------------------------------------------------------------------
(* StrategyManager: properties *)

\* load_strategy and get_template return {} whatever they are asked for,
\* and every such call made so far returned {}
LoadsReturnEmpty ==
    /\ \A id \in StrategyIds : DictGet(strategies, id, EmptyDict) = EmptyDict
    /\ \A t \in TemplateTypes : DictGet(templates, t, EmptyDict) = EmptyDict
    /\ (strat_call.op \in {"load_strategy", "get_template"} =>
           strat_call.ret = Value(EmptyDict))

\* no step writes strategies or templates
NothingWritesStrategies ==
    /\ strategies' = strategies
    /\ templates' = templates

\* an update_hot_topics step leaves exactly the list it was passed
UpdateReplaces ==
    strat_call'.op = "update_hot_topics" =>
        /\ hot_topics' = strat_call'.topics
        /\ strat_call'.before = hot_topics

\* C22: after any sequence of StrategyManager method calls,
\* load_strategy(id) and get_template(type) return {} for every id and
\* type, because no method writes strategies or templates;
\* update_hot_topics(topics) replaces hot_topics with topics (it does not
\* merge with the previous list) and changes nothing else.
C22_LoadsEmptyAndTopicsReplaced ==
    /\ []LoadsReturnEmpty
    /\ [][NothingWritesStrategies /\ UpdateReplaces]_vars

\* C22 witness: update_hot_topics was called while hot_topics held two
\* topics, with a list of one other topic, and hot_topics is now that list.
C22_Witness ==
    /\ strat_call.op = "update_hot_topics"
    /\ strat_call.before = <<"ai", "travel">>
    /\ strat_call.topics = <<"food">>
    /\ hot_topics = <<"food">>

\* C22 witness for the loads: load_strategy returned {} after hot_topics
\* was updated.
C22_WitnessLoad ==
    /\ strat_call.op = "load_strategy"
    /\ strat_call.ret = Value(EmptyDict)
    /\ hot_topics # <<>>

-----------------------------------------------------------------------------
(* API application: properties *)

\* C1: in every reachable state of the application, after any sequence of
\* earlier requests to any route, succeeded or failed, GET /health can be
\* served and is answered 200 with body {"status": "healthy"}, GET / is
\* answered 200, and neither handler calls a repository, a service or the
\* workflow.
C1_HealthAndRootAlwaysOk ==
    /\ ENABLED health
    /\ ENABLED root
    /\ api_resp.route = "GET /health" =>
           /\ api_resp.status = 200
           /\ api_resp.body = [status |-> "healthy"]
           /\ api_calls = <<>>
    /\ api_resp.route = "GET /" =>
           /\ api_resp.status = 200
           /\ api_calls = <<>>

\* C1 witness: GET /health answered after earlier requests that ended 200,
\* 422 and 500 and with contents stored.
C1_Witness ==
    /\ api_resp.route = "GET /health"
    /\ {200, 422, 500} \subseteq api_seen
    /\ api_store # {}

\* C1 witness for the root route, after a failed request.
C1_WitnessRoot ==
    /\ api_resp.route = "GET /"
    /\ 500 \in api_seen

-----------------------------------------------------------------------------
(* Human-in-the-loop graph: properties *)

\* the steps of a resumed run up to the chatbot node that follows tools
ResumeSteps ==
    <<"tools", "human_assistance", "print", "interrupt.return", "tools.done",
      "chatbot">>

\* In a run started with Command(resume=v) the interrupted tools node is
\* executed again from its beginning: human_assistance is called again, its
\* print before interrupt() runs again, interrupt() returns v instead of
\* pausing, the tools node completes with v["data"] as the tool result, and
\* chatbot runs next; the run does not end before that.
ResumeReexecutesTools ==
    (hitl_run.input.kind = "resume" /\ hitl_run.status \in {"running", "ended"}) =>
        /\ IsPrefix(hitl_run.trace, ResumeSteps) \/ IsPrefix(ResumeSteps, hitl_run.trace)
        /\ Len(hitl_run.trace) >= 4 => hitl_run.interrupt_ret = Value(hitl_run.input.value)
        /\ Len(hitl_run.trace) >= 5 =>
               hitl_msgs[hitl_run.base + 1] = ToolMessage(hitl_run.input.value.data)
        /\ hitl_run.status = "ended" => Len(hitl_run.trace) >= 6

\* C10 as stated: resuming an interrupted run with Command(resume=v)
\* re-executes the tools node from its beginning (human_assistance called
\* again, the code before interrupt() run again, interrupt() returning v),
\* the tools node completes, chatbot runs next and the run ends with an
\* empty snapshot.next.
C10_ResumeEndsWithEmptyNext ==
    /\ ResumeReexecutesTools
    /\ (hitl_run.input.kind = "resume" /\ hitl_run.status = "ended") =>
           hitl_next = <<>>

\* C10 as amended: as stated up to "chatbot runs next"; the run then ends
\* with an empty snapshot.next when the message that chatbot adds carries no
\* tool call (with one tool call the tools node runs and interrupts again,
\* with more the assertion fails: snapshot.next is not empty in either case).
C10_ResumeReexecutesToolsThenChatbot ==
    /\ ResumeReexecutesTools
    /\ (/\ hitl_run.input.kind = "resume"
        /\ hitl_run.status = "ended"
        /\ Len(hitl_msgs) >= hitl_run.base + 2
        /\ hitl_msgs[hitl_run.base + 2].tool_calls = 0) =>
           /\ hitl_next = <<>>
           /\ hitl_run.end = "completed"
           /\ hitl_run.trace = ResumeSteps

\* C10 witness: a run resumed with the human's "skip" that re-executed the
\* tools node, ran chatbot and completed with an empty snapshot.next.
C10_Witness ==
    /\ hitl_run.input.kind = "resume"
    /\ hitl_run.input.value = [data |-> "cannot assist"]
    /\ hitl_run.status = "ended"
    /\ hitl_run.end = "completed"
    /\ hitl_run.trace = ResumeSteps
    /\ hitl_next = <<>>

-----------------------------------------------------------------------------
(* TaskScheduler: order among equal priorities, queue length *)

\* the entries of s that have priority p, in their order in s
WithPriority(s, p) == SelectSeq(s, LAMBDA e : e.priority = p)

\* C19: in task_queue, entries of equal priority stay in the order in which
\* they were added (first added first), after any sequence of add_task calls
\* with any interleaving of other priorities.
C19_EqualPrioritiesInAddOrder ==
    \A p \in Priorities : WithPriority(task_queue, p) = WithPriority(add_log, p)

\* C19 witness: a full queue whose two priority-0 entries are different
\* tasks, whose last add_task was one of them, and that also holds a higher
\* and a lower priority added in between.
C19_Witness ==
    /\ Len(task_queue) = 4
    /\ sched_call.op = "add_task"
    /\ sched_call.arg = 0
    /\ task_queue[1].priority = 1
    /\ task_queue[2].priority = 0
    /\ task_queue[3].priority = 0
    /\ task_queue[2].task # task_queue[3].task
    /\ task_queue[3].task = sched_call.task
    /\ task_queue[4].priority = -1
    /\ add_log[1] = task_queue[2]

\* C20: after any sequence of add_task, execute_task and retry_task calls,
\* the length of task_queue equals the number of add_task calls made so far
\* (nothing removes an entry, the same task added twice is two entries) and
\* running_tasks is empty.
C20_QueueLengthIsAddCalls ==
    /\ Len(task_queue) = add_calls
    /\ running_tasks = EmptyDict

\* C20 witness: after an execute_task call, a queue of four entries, two of
\* them the same task with the same priority, the executed task among them.
C20_Witness ==
    /\ sched_call.op = "execute_task"
    /\ add_calls = 4
    /\ \E i, j \in 1..Len(task_queue) : i # j /\ task_queue[i] = task_queue[j]
    /\ \E i \in 1..Len(task_queue) : task_queue[i].task = sched_call.task

-----------------------------------------------------------------------------
(* Human-in-the-loop graph: the snapshot after a stream has ended *)

\* the stream of the current run was iterated to its end: the for loop over
\* the events exited (an AssertionError leaves the loop by raising instead)
IteratedToEnd == hitl_run.status = "ended" /\ hitl_run.end # "error"

\* the last thing the run did was to raise GraphInterrupt out of
\* human_assistance, inside the tools node
InterruptedInTools ==
    /\ hitl_run.status = "ended"
    /\ hitl_run.end = "interrupted"
    /\ hitl_run.trace # <<>>
    /\ hitl_run.trace[Len(hitl_run.trace)] = "interrupt.raise"

C11_WitnessFirstRun ==
    /\ InterruptedInTools
    /\ hitl_run.input.kind = "input"

\* C12: for every run whose event stream was iterated to its end,
\* snapshot.next is empty exactly when the graph completed normally, and
\* non-empty exactly when it was interrupted, in which case it can be resumed;
\* both kinds of run end their stream, so the end of the stream alone does
\* not tell them apart.
C12_NextTellsInterruptedFromCompleted ==
    IteratedToEnd =>
        /\ hitl_run.end \in {"completed", "interrupted"}
        /\ (hitl_next = <<>>) <=> (hitl_run.end = "completed")
        /\ (hitl_next # <<>>) <=> (hitl_run.end = "interrupted")
        /\ (hitl_run.end = "interrupted") <=> (ENABLED StreamResume)
        /\ ~ ENABLED (Chatbot \/ tools_start \/ ha_print \/ ha_interrupt \/ ha_return)

\* C12 witness: a stream iterated to its end by a run that was interrupted.
C12_Witness ==
    /\ IteratedToEnd
    /\ hitl_run.end = "interrupted"
    /\ hitl_next # <<>>

\* C12 witness for the other case: a stream iterated to its end by a run
\* that completed, after passing through the tools node.
C12_WitnessCompleted ==
    /\ IteratedToEnd
    /\ hitl_run.end = "completed"
    /\ hitl_next = <<>>
    /\ \E i \in 1..Len(hitl_run.trace) : hitl_run.trace[i] = "tools.done"

-----------------------------------------------------------------------------
(* Human-in-the-loop graph: the event stream *)

\* the thread's state as the nodes see and write it
hitlThread == <<hitl_msgs, hitl_next, hitl_turns, hitl_resume, hitl_pc>>

\* graph.stream(...) itself runs no node and delivers no event: while the
\* stream has not been iterated the thread is as it was at the call
StreamIsLazy ==
    /\ [](hitl_run.status = "created" =>
            /\ hitl_run.trace = <<>>
            /\ hitl_run.events = <<>>
            /\ Len(hitl_msgs) = hitl_run.base)
    /\ [][hitl_run'.status = "created" => UNCHANGED hitlThread]_vars

\* the events a stream has delivered are the generator's yields in their
\* order, each one once
EventsDeliveredOnce ==
    /\ [](\A i \in 1..Len(hitl_run.events) : hitl_run.events[i].id = i)
    /\ [][hitl_run.status = "running" /\ hitl_run'.status \in {"running", "ended"} =>
            \/ hitl_run'.events = hitl_run.events
            \/ /\ Len(hitl_run'.events) = Len(hitl_run.events) + 1
               /\ SubSeq(hitl_run'.events, 1, Len(hitl_run.events)) = hitl_run.events]_vars

\* once a stream has ended, iterating it delivers nothing and runs nothing;
\* the thread goes on only through a new stream() call
EndedStreamStaysEnded ==
    [][hitl_run.status = "ended" =>
          /\ hitl_run'.status \in {"ended", "created"}
          /\ hitl_run'.status = "ended" =>
                /\ hitl_run'.events = hitl_run.events
                /\ hitl_run'.trace = hitl_run.trace
          /\ UNCHANGED hitlThread]_vars

\* C13: the event stream returned by graph.stream() is lazy and single-use:
\* no node runs before the first iteration step, every event is delivered at
\* most once, iterating again after the stream has ended delivers no event
\* and runs no node, and an interrupted run continues only through a new
\* stream() call.
C13_StreamLazyAndSingleUse ==
    StreamIsLazy /\ EventsDeliveredOnce /\ EndedStreamStaysEnded

\* C13 witness: the stream of a resumed run, which delivered events and was
\* interrupted again, has been iterated a second time after its end.
C13_Witness ==
    /\ hitl_run.status = "ended"
    /\ hitl_run.end = "interrupted"
    /\ hitl_run.input.kind = "resume"
    /\ hitl_run.reiterated >= 1
    /\ Len(hitl_run.events) >= 2

\* C13 witness for laziness: stream(Command(resume=...)) has been called on
\* an interrupted thread and not iterated yet.
C13_WitnessNotIterated ==
    /\ hitl_run.status = "created"
    /\ hitl_run.input.kind = "resume"
    /\ hitl_next = <<"tools">>

-----------------------------------------------------------------------------
(* state_snapshot_demo.py: what demonstrate_state_comparison reports *)

\* the reports of demonstrate_state_comparison about thread
ComparisonReports(thread) ==
    {i \in 1..Len(snap_out) :
        /\ snap_out[i].fn = "demonstrate_state_comparison"
        /\ snap_out[i].thread = thread}

\* C14 as stated: in demonstrate_state_comparison, after graph.stream(...)
\* on thread "interrupted" the snapshot has a non-empty next (the graph is
\* reported as interrupted), and after simple_graph.stream(...) on thread
\* "normal-completion" the snapshot has an empty next because the single
\* node ran to completion.
C14_ComparisonShowsInterruptedAndCompleted ==
    /\ \A i \in ComparisonReports("interrupted") :
          snap_out[i].next # <<>> /\ snap_out[i].interrupted
    /\ \A i \in ComparisonReports("normal-completion") :
          snap_out[i].next = <<>> /\ snap_out[i].ran = <<"simple">>

\* C14, what the code does: neither stream is iterated, so no node of either
\* graph runs, neither thread has a checkpoint, and both snapshots have an
\* empty next: thread "interrupted" is reported as completed.
C14_ComparisonRunsNoNode ==
    \A i \in 1..Len(snap_out) :
        snap_out[i].fn = "demonstrate_state_comparison" =>
            /\ snap_out[i].next = <<>>
            /\ snap_out[i].ran = <<>>
            /\ snap_out[i].interrupts = 0
            /\ ~ snap_out[i].interrupted

\* C14 witness: demonstrate_state_comparison has reported on both threads,
\* after a demonstrate_state_snapshot call whose iterated stream was reported
\* as interrupted in node_b.
C14_Witness ==
    /\ ComparisonReports("interrupted") # {}
    /\ ComparisonReports("normal-completion") # {}
    /\ \E i \in 1..Len(snap_out) :
          /\ snap_out[i].fn = "demonstrate_state_snapshot"
          /\ snap_out[i].next = <<"node_b">>
          /\ snap_out[i].ran = <<"node_a">>

-----------------------------------------------------------------------------
(* human_review_example.py: invocations of the wrapped tool *)

\* the arguments of the tool.invoke calls made for tool call c, in order
Invocations(c) ==
    LET of_c == SelectSeq(rev_log, LAMBDA e : e.call = c)
    IN  [i \in 1..Len(of_c) |-> of_c[i].args]

\* C16: the tool wrapped by add_human_in_the_loop is never invoked before a
\* human response has arrived; across the interrupted run and the resumed
\* run it is invoked exactly once for accept (with the original arguments)
\* and for edit (with the arguments of the response), not at all for
\* response (the feedback becomes the tool result), and any other type
\* raises ValueError without an invocation.
C16_WrappedToolInvokedAsReviewed ==
    \A c \in 1..Len(rev_calls) :
        LET call == rev_calls[c]
            type == call.response.value.type
        IN  /\ call.response = None => Invocations(c) = <<>>
            /\ call.outcome = "pending" => Invocations(c) = <<>>
            /\ call.outcome = "returned" =>
                  /\ type \in {"accept", "edit", "response"}
                  /\ type = "accept" =>
                        /\ Invocations(c) = <<call.args>>
                        /\ call.result = Value(book_hotel_simple(call.args))
                  /\ type = "edit" =>
                        /\ Invocations(c) = <<call.response.value.args.args>>
                        /\ call.result =
                              Value(book_hotel_simple(call.response.value.args.args))
                  /\ type = "response" =>
                        /\ Invocations(c) = <<>>
                        /\ call.result = Value(call.response.value.args)
            /\ call.outcome = "ValueError" =>
                  /\ type \notin {"accept", "edit", "response"}
                  /\ Invocations(c) = <<>>
            /\ (call.response # None /\ call.outcome = "pending") =>
                  /\ c = Current
                  /\ rev_status = "running"

\* C16 witness: the wrapper has returned for an edit whose arguments differ
\* from the ones the LLM gave, after it was entered twice (once in the
\* interrupted run, once in the resumed one), and an earlier tool call was
\* answered by feedback.
C16_Witness ==
    /\ Len(rev_calls) = 2
    /\ rev_calls[1].outcome = "returned"
    /\ rev_calls[1].response.value.type = "response"
    /\ rev_calls[2].outcome = "returned"
    /\ rev_calls[2].entered = 2
    /\ rev_calls[2].response.value.type = "edit"
    /\ rev_calls[2].response.value.args.args # rev_calls[2].args

\* C16 witness for the other cases: ValueError for an unsupported type after
\* an accepted call.
C16_WitnessValueError ==
    /\ Len(rev_calls) = 2
    /\ rev_calls[1].outcome = "returned"
    /\ rev_calls[1].response.value.type = "accept"
    /\ rev_calls[2].outcome = "ValueError"
    /\ rev_status = "error"

-----------------------------------------------------------------------------
(* Human-in-the-loop and custom-state graphs: one tool call per message *)

\* every message the chatbot node has stored, in either graph, carries at
\* most one tool call
StoredWithOneToolCall ==
    /\ \A i \in 1..Len(hitl_msgs) : hitl_msgs[i].tool_calls <= 1
    /\ \A i \in 1..Len(cs_state.messages) :
          Len(cs_state.messages[i].tool_calls) <= 1

\* how often the tools node has started, and finished, the tool call of
\* message c of the custom-state thread
Starts(c) == Len(SelectSeq(cs_exec, LAMBDA e : e.call = c /\ e.what = "start"))
Dones(c) == Len(SelectSeq(cs_exec, LAMBDA e : e.call = c /\ e.what = "done"))

\* the tool calls of the custom-state thread
ToolCallsMade ==
    {c \in 1..Len(cs_state.messages) : cs_state.messages[c].tool_calls # <<>>}

C17_WitnessHitl ==
    /\ hitl_run.input.kind = "resume"
    /\ hitl_run.end = "error"
    /\ hitl_run.trace[1] = "tools"
    /\ Len(hitl_msgs) = 3

-----------------------------------------------------------------------------
(* basic_chatbot.py: what the LLM is given *)

\* the messages among the first upto of the log that were exchanged after
\* the epoch-th clear command and before the next one
Conversation(epoch, upto) ==
    SelectSeq(SubSeq(bot_log, 1, upto), LAMBDA m : m.epoch = epoch)

\* C18: inputs processed under the same thread_id see the whole
\* conversation so far; after a clear or reset command every later input is
\* processed with a history that contains none of the messages exchanged
\* before the command; and the command itself is not sent to the graph.
C18_HistoryPerThreadAndCleared ==
    /\ \A i \in 1..Len(bot_seen) :
          LET call == bot_seen[i]
          IN  /\ call.history = Conversation(call.epoch, call.upto)
              /\ \A k \in 1..Len(call.history) :
                    call.history[k].epoch = call.epoch
              /\ \A j \in 1..(i - 1) :
                    bot_seen[j].thread = call.thread =>
                        IsPrefix(bot_seen[j].history, call.history)
    /\ \A k \in 1..Len(bot_log) :
          Lower(bot_log[k].text) \notin ClearCommands \cup QuitCommands

\* C18 witness: two inputs were answered, the history was cleared, and a
\* third input was processed with a history holding that input alone while
\* the store still holds the four earlier messages.
C18_Witness ==
    /\ Len(bot_seen) = 3
    /\ bot_epoch = 1
    /\ Len(bot_seen[2].history) = 3
    /\ Len(bot_seen[3].history) = 1
    /\ bot_seen[3].epoch = 1
    /\ Len(Messages(bot_store, BaseThread)) = 4

-----------------------------------------------------------------------------
(* swarm_example.py: what a second invocation on a thread starts from *)

\* invocation j is the first one on its thread after invocation i
NextOnThread(i, j) ==
    /\ i < j
    /\ sw_log[i].thread = sw_log[j].thread
    /\ \A k \in (i + 1)..(j - 1) : sw_log[k].thread # sw_log[i].thread

\* C15 as stated: two invocations of the swarm with the same thread_id
\* share memory: the second one starts at the agent that was active when
\* the first one ended (not at flight_assistant when a handoff happened)
\* and its agent receives all messages of the first invocation.
C15_SameThreadSharesMemory ==
    \A i, j \in 1..Len(sw_log) :
        NextOnThread(i, j) =>
            /\ sw_log[j].start = sw_log[i].end
            /\ IsPrefix(sw_log[i].final, sw_log[j].given)

\* C15, what the code does: the swarm is compiled without a checkpointer,
\* so nothing is kept between invocations: every invocation, whatever its
\* thread_id, starts at flight_assistant and its agent is given the one
\* message of that invocation.
C15_EveryInvocationStartsAfresh ==
    /\ sw_saved = EmptyDict
    /\ \A j \in 1..Len(sw_log) :
          /\ sw_log[j].start = DefaultActiveAgent
          /\ Len(sw_log[j].given) = 1
          /\ sw_log[j].given[1].role = "human"
          /\ sw_log[j].given[1].invocation = j

\* C15 witness: a first invocation on a thread ended at hotel_assistant
\* after a handoff, and a second invocation on the same thread has started.
C15_Witness ==
    /\ Len(sw_log) >= 2
    /\ NextOnThread(1, 2)
    /\ sw_log[1].ended
    /\ sw_log[1].end = "hotel_assistant"
    /\ Len(sw_log[1].final) >= 4

====
